---- MODULE Spec2Model ----
(***************************************************************************)
(* Model of the parallel block-put pipeline of libkbfs                     *)
(* (block_ops_constrained.go): putBlockToServer, PutBlockCheckQuota,       *)
(* doOneBlockPut and doBlockPuts with its errgroup worker pool.            *)
(***************************************************************************)
EXTENDS Integers, Sequences, FiniteSets, TLC

\* ---------------------------------------------------------------- bounds
\* Largest batch (len(bps.blockStates)) explored.
MaxBatch == 2
\* Largest value of maxParallelBlockPuts explored.
MaxParallel == 2

\* ------------------------------------------------------------ data model
\* kbfsblock.ZeroRefNonce, and the reference nonces a BlockPointer carries.
ZeroRefNonce == 0
RefNonces == {ZeroRefNonce, 1}

\* The in-memory blocks a batch may reference (by identity).  "f1" and "f2"
\* are non-indirect *FileBlock, "ind" an indirect *FileBlock, "dir" a
\* *DirBlock.
Blocks == {"f1", "f2", "ind", "dir"}
IsFileBlock(b) == b \in {"f1", "f2", "ind"}
IsInd(b) == b = "ind"

\* Error values.  id names the entry the block server (or the callback)
\* produced the error for; ctx.Err() is one shared value.
Err(t, thr, i) == [type |-> t, Throttled |-> thr, id |-> i]
nil == Err("nil", FALSE, 0)
Canceled == Err("context.Canceled", FALSE, 0)

\* What bserv.Put / bserv.AddBlockReference may answer for entry i.
ServerErrorTypes ==
    {"BServerErrorBlockArchived", "BServerErrorBlockDeleted",
     "BServerErrorBlockNonExistent", "BServerErrorMaxRefExceeded",
     "other"}
ServerAnswers(i) ==
    {nil} \cup {Err(t, FALSE, i) : t \in ServerErrorTypes}
          \cup {Err("BServerErrorOverQuota", thr, i) : thr \in BOOLEAN}

\* What an entry's syncedCb may return.
CallbackAnswers(i) ==
    {nil, Err("BServerErrorBlockDeleted", FALSE, i), Err("other", FALSE, i)}

\* One blockState of the batch: the RefNonce of its blockPtr, its in-memory
\* block, and whether its syncedCb is non-nil.  The blockPtr of the entry at
\* index i has ID i, so the pointers of a batch are pairwise distinct.
BlockState == [RefNonce : RefNonces, block : Blocks, hasCb : BOOLEAN]
BlockPutStates == UNION {[1..n -> BlockState] : n \in 0..MaxBatch}
\* Variant: the pointer is rebuilt from the ID alone, with a zero RefNonce.
BlockPtrZeroed(blockStates, i) == [ID |-> i, RefNonce |-> ZeroRefNonce]

BlockPtr(blockStates, i) == [ID |-> i, RefNonce |-> blockStates[i].RefNonce]

\* -------------------------------------------------------- pure functions
\* Variant: over-quota errors are asserted as recoverable too.
isRecoverableBlockErrorQuota(err) ==
    err.type \in {"BServerErrorBlockArchived", "BServerErrorBlockDeleted",
                  "BServerErrorBlockNonExistent", "BServerErrorMaxRefExceeded",
                  "BServerErrorOverQuota"}

\* Variant: the max-references-exceeded assertion is missing.
isRecoverableBlockErrorNoMaxRef(err) ==
    err.type \in {"BServerErrorBlockArchived", "BServerErrorBlockDeleted",
                  "BServerErrorBlockNonExistent"}

\* isRecoverableBlockError: the four type assertions.
isRecoverableBlockError(err) ==
    LET isArchiveError == err.type = "BServerErrorBlockArchived"
        isDeleteError == err.type = "BServerErrorBlockDeleted"
        isRefError == err.type = "BServerErrorBlockNonExistent"
        isMaxExceededError == err.type = "BServerErrorMaxRefExceeded"
    IN  isArchiveError \/ isDeleteError \/ isRefError \/ isMaxExceededError

\* Variant: the full block is put whatever the RefNonce.
putBlockToServerAlwaysPut(blockPtr) == [op |-> "Put", buf |-> TRUE]

\* putBlockToServer: which block-server method is called, and whether the
\* payload (buf, serverHalf) travels with it.
putBlockToServer(blockPtr) ==
    IF blockPtr.RefNonce = ZeroRefNonce
    THEN [op |-> "Put", buf |-> TRUE]
    ELSE [op |-> "AddBlockReference", buf |-> FALSE]

\* putBlockToServer's return value, given the error the server call returned.
putBlockToServerErr(bservErr) == bservErr

\* Variant: the Throttled flag of the quota error is not looked at.
PutBlockCheckQuotaAnyQuota(err) ==
    IF err.type = "BServerErrorOverQuota"
    THEN [err |-> nil, reports |-> 1]
    ELSE [err |-> err, reports |-> 0]

\* Variant: the warning is reported but the quota error is still returned.
PutBlockCheckQuotaNoReturn(err) ==
    IF err.type = "BServerErrorOverQuota" /\ ~err.Throttled
    THEN [err |-> err, reports |-> 1]
    ELSE [err |-> err, reports |-> 0]

\* PutBlockCheckQuota, given putBlockToServer's error: the error it returns
\* and the number of OverQuotaWarning reports it makes.
PutBlockCheckQuota(err) ==
    IF err.type = "BServerErrorOverQuota" /\ ~err.Throttled
    THEN [err |-> nil, reports |-> 1]
    ELSE [err |-> err, reports |-> 0]

\* Variant: the block server completes the call whatever its context.
BServerResultIgnoresCtx(ctxDone, answer) == answer

\* The block server's reaction to the context of a call: a call whose context
\* is done ends with the context's error, otherwise with the server's answer.
BServerResult(ctxDone, answer) == IF ctxDone THEN Canceled ELSE answer

\* Variant: one worker per entry, without the cap.
NumWorkersUncapped(n, maxParallel) == n

\* numWorkers of doBlockPuts.
NumWorkers(n, maxParallel) == IF n > maxParallel THEN maxParallel ELSE n

\* ------------------------------------------------------------------ state
VARIABLES
    maxParallelBlockPuts, \* the package's maximum number of workers (never
                          \* changed; a variable so that it ranges over values)
    bps,                  \* bps.blockStates, the batch handed to doBlockPuts
    ctxCancelled,         \* the caller's ctx is done
    pc,                   \* where doBlockPuts' own goroutine is
    blocks,               \* the channel of blockStates (indices into bps)
    blocksClosed,         \* close(blocks) has happened
    idle,                 \* workers waiting to receive from blocks
    entry,                \* per entry: how far its doOneBlockPut has come
    eg,                   \* the errgroup: first error, derived-context cancel
    blocksToRemoveChan,   \* the channel of recoverably failed *FileBlock
    blocksToRemove,       \* doBlockPuts' pointer list
    retErr,               \* doBlockPuts' returned error
    bcache,               \* the calls made on the block cache
    ctxAtCall             \* ctx was already done when doBlockPuts was called

\* BlockOpsConstrained and the callers of its Put.
VARIABLES
    bwKBps,               \* the configured bandwidth
    lock,                 \* BlockOpsConstrained.lock: 0, or the Put holding it
    now,                  \* the clock, in milliseconds
    puts                  \* per call of Put: how far it has come

constrainedVars == <<bwKBps, lock, now, puts>>

\* A stallingBlockOps or stallingMDOps, its channels and the operations on it.
VARIABLES
    wrapper,              \* "stallingBlockOps" or "stallingMDOps"
    stallOpName,          \* the wrapper's stallOpName
    stalled,              \* per registered key: values in staller.stalled
    unstall,              \* per registered key: values offered on staller.unstall
    ops                   \* per operation called on the wrapper: its progress

stallVars == <<wrapper, stallOpName, stalled, unstall, ops>>

\* A call of assembleBlock.
VARIABLES
    asm                   \* its arguments, its position and what it has done

assembleVars == <<asm>>

\* A computation of BlockOpsConstrained.delay on the platform's int.
VARIABLES
    dly                   \* its arguments, its position and its outcome

delayVars == <<dly>>

\* FS.notifications, its processor and the callers of queueNotification.
VARIABLES
    notifications,        \* FS.notifications: "nil" or the channel
    nchan,                \* the channels.Channel made by the launcher
    notificationGroup,    \* FS.notificationGroup's counter
    notificationMutex,    \* FS.notificationMutex: its writer and readers
    proc,                 \* processNotifications: its position
    fsctx,                \* the ctx of the processor is done
    qn                    \* per call of queueNotification: its progress

notifVars == <<notifications, nchan, notificationGroup, notificationMutex,
               proc, fsctx, qn>>

\* A call of FS.MoveFile on a Dir and the directory holding its target.
VARIABLES
    mv,                   \* the call: its arguments and its progress
    dstExists             \* the target name exists in the destination

moveVars == <<mv, dstExists>>

\* A call of FS.folderListRename and the FolderList it works on.
VARIABLES
    flr,                  \* the call: its arguments and its progress
    folders               \* FolderList.folders: the names it holds

folderVars == <<flr, folders>>

fsVars == <<delayVars, notifVars, moveVars, folderVars>>

\* What doBlockPuts never touches.
restVars == <<ctxAtCall, constrainedVars, stallVars, assembleVars, fsVars>>

vars == <<maxParallelBlockPuts, bps, ctxCancelled, pc, blocks, blocksClosed,
          idle, entry, eg, blocksToRemoveChan, blocksToRemove, retErr, bcache,
          restVars>>

N == Len(bps)
numWorkers == NumWorkers(N, maxParallelBlockPuts)
\* Variant: the workers are given ctx instead of groupCtx.
groupCtxDoneCallerOnly == ctxCancelled

\* groupCtx is done when the caller's ctx is, or when the errgroup cancelled it.
groupCtxDone == ctxCancelled \/ eg.cancelled
\* Entries whose doOneBlockPut is running (one worker each).
Busy == {i \in 1..N : entry[i].phase \in {"inflight", "returned", "synced"}}

NewEntry ==
    [phase |-> "queued",  \* queued, inflight, returned, synced, finished
     bservCalls |-> <<>>, \* the calls made on the block server for it
     wasInFlight |-> FALSE,
     bservErr |-> nil,    \* what the block server call returned
     putErr |-> nil,      \* what putBlockToServer returned
     reports |-> 0,       \* OverQuotaWarning reports
     syncedCb |-> 0,      \* invocations of syncedCb
     cbErr |-> nil,       \* what syncedCb returned
     err |-> nil]         \* err of doOneBlockPut

\* No BlockOpsConstrained is in use.
ConstrainedUnused ==
    /\ bwKBps = 0
    /\ lock = 0
    /\ now = 0
    /\ puts = <<>>

\* assembleBlock is not called.
AssembleUnused == asm = <<>>

\* The state of the other computations while they are not run.
DelayUnused == dly = <<>>
NotifUnused ==
    /\ notifications = "nil"
    /\ nchan = <<>>
    /\ notificationGroup = 0
    /\ notificationMutex = <<>>
    /\ proc = ""
    /\ fsctx = FALSE
    /\ qn = <<>>
MoveUnused == mv = <<>> /\ dstExists = FALSE
FolderUnused == flr = <<>> /\ folders = {}

\* No stalling wrapper is in use.
StallUnused ==
    /\ wrapper = "stallingBlockOps"
    /\ stallOpName = "Get"
    /\ stalled = <<>>
    /\ unstall = <<>>
    /\ ops = <<>>

Init ==
    /\ maxParallelBlockPuts \in 1..MaxParallel
    /\ bps \in BlockPutStates
    /\ ctxAtCall \in BOOLEAN
    /\ ctxCancelled = ctxAtCall
    /\ ConstrainedUnused
    /\ StallUnused
    /\ AssembleUnused
    /\ DelayUnused /\ NotifUnused /\ MoveUnused /\ FolderUnused
    /\ pc = "start"
    /\ blocks = <<>>
    /\ blocksClosed = FALSE
    /\ idle = 0
    /\ entry = [i \in 1..Len(bps) |-> NewEntry]
    /\ eg = [err |-> nil, cancelled |-> FALSE]
    /\ blocksToRemoveChan = <<>>
    /\ blocksToRemove = <<>>
    /\ retErr = nil
    /\ bcache = [DeleteKnownPtr |-> <<>>, DeleteTransient |-> <<>>]

\* ---------------------------------------------------------------- actions
\* Entries already sent on blocks by the feeding loop.
fed == Len(blocks) + Cardinality({i \in 1..N : entry[i].phase # "queued"})

\* Variant: the block's type is not looked at.
ShouldRemoveAnyBlock(blockState, err) ==
    err # nil /\ isRecoverableBlockError(err)

\* doOneBlockPut's test for recording the block on blocksToRemoveChan.
ShouldRemove(blockState, err) ==
    /\ err # nil
    /\ isRecoverableBlockError(err)
    /\ IsFileBlock(blockState.block)
    /\ ~IsInd(blockState.block)

\* Variant: a plain errgroup.Group, whose errors cancel no context.
EgReturnNoCancel(g, err) ==
    IF err # nil /\ g.err = nil THEN [err |-> err, cancelled |-> FALSE] ELSE g

\* errgroup: what a worker returning err does to the group (the first
\* non-nil error is kept and cancels the derived context).
EgReturn(g, err) ==
    IF err # nil /\ g.err = nil THEN [err |-> err, cancelled |-> TRUE] ELSE g

\* Variant: blocksToRemoveChan is made without a buffer.
ChanCapUnbuffered(n) == 0

\* The capacity of blocksToRemoveChan, for n workers.
ChanCap(n) == n

\* Variant: the worker's loop never leaves on an error.
WorkerStopsNever(err) == FALSE

\* Variant: the worker returns after its first blockState.
WorkerStopsAlways(err) == TRUE

\* Variant: the worker goes on after a recoverable error.
WorkerStopsOnFatal(err) == err # nil /\ ~isRecoverableBlockError(err)

\* The worker's loop after doOneBlockPut returned err: TRUE when it leaves
\* the loop (return err), FALSE when it goes on to the next blockState.
WorkerStops(err) == err # nil

\* The caller cancels the context it passed to doBlockPuts.
CancelCtx ==
    /\ pc # "done"
    /\ ~ctxCancelled
    /\ ctxCancelled' = TRUE
    /\ UNCHANGED <<restVars, maxParallelBlockPuts, bps, pc, blocks, blocksClosed, idle,
                   entry, eg, blocksToRemoveChan, blocksToRemove, retErr, bcache>>

\* doBlockPuts up to the end of the eg.Go loop: the workers are started.
StartWorkers ==
    /\ pc = "start"
    /\ idle' = numWorkers
    /\ pc' = "feed"
    /\ UNCHANGED <<restVars, maxParallelBlockPuts, bps, ctxCancelled, blocks, blocksClosed,
                   entry, eg, blocksToRemoveChan, blocksToRemove, retErr, bcache>>

\* One iteration of the loop that sends the blockStates on blocks.
Feed ==
    /\ pc = "feed"
    /\ fed < N
    /\ Len(blocks) < N
    /\ blocks' = Append(blocks, fed + 1)
    /\ UNCHANGED <<restVars, maxParallelBlockPuts, bps, ctxCancelled, pc, blocksClosed,
                   idle, entry, eg, blocksToRemoveChan, blocksToRemove, retErr,
                   bcache>>

\* close(blocks)
CloseBlocks ==
    /\ pc = "feed"
    /\ fed = N
    /\ blocksClosed' = TRUE
    /\ pc' = "wait"
    /\ UNCHANGED <<restVars, maxParallelBlockPuts, bps, ctxCancelled, blocks, idle, entry,
                   eg, blocksToRemoveChan, blocksToRemove, retErr, bcache>>

\* Variant: a receive leaves the blockState in the channel.
blocksAfterRecvKeeps(q) == q

\* What the blocks channel holds after a worker received from it.
blocksAfterRecv(q) == Tail(q)

\* A worker receives the next blockState and doOneBlockPut issues its block
\* server call through PutBlockCheckQuota and putBlockToServer.
StartPut ==
    /\ idle > 0
    /\ blocks # <<>>
    /\ LET i == Head(blocks)
           call == putBlockToServer(BlockPtr(bps, i))
       IN  /\ blocks' = blocksAfterRecv(blocks)
           /\ idle' = idle - 1
           /\ entry' = [entry EXCEPT ![i] =
                  IF groupCtxDone
                  THEN LET r == PutBlockCheckQuota(
                                  putBlockToServerErr(BServerResult(TRUE, nil)))
                       IN  [@ EXCEPT !.phase = "returned",
                                     !.bservCalls = Append(@, call),
                                     !.bservErr = BServerResult(TRUE, nil),
                                     !.putErr = putBlockToServerErr(BServerResult(TRUE, nil)),
                                     !.reports = @ + r.reports,
                                     !.err = r.err]
                  ELSE [@ EXCEPT !.phase = "inflight",
                                 !.wasInFlight = TRUE,
                                 !.bservCalls = Append(@, call)]]
    /\ UNCHANGED <<restVars, maxParallelBlockPuts, bps, ctxCancelled, pc, blocksClosed, eg,
                   blocksToRemoveChan, blocksToRemove, retErr, bcache>>

\* The block server call of entry i returns; putBlockToServer and
\* PutBlockCheckQuota return.
RemoteReturn(i) ==
    /\ entry[i].phase = "inflight"
    /\ \E answer \in ServerAnswers(i) :
          LET bservErr == BServerResult(groupCtxDone, answer)
              putErr == putBlockToServerErr(bservErr)
              r == PutBlockCheckQuota(putErr)
          IN  entry' = [entry EXCEPT ![i] =
                  [@ EXCEPT !.phase = "returned",
                            !.bservErr = bservErr,
                            !.putErr = putErr,
                            !.reports = @ + r.reports,
                            !.err = r.err]]
    /\ UNCHANGED <<restVars, maxParallelBlockPuts, bps, ctxCancelled, pc, blocks,
                   blocksClosed, idle, eg, blocksToRemoveChan, blocksToRemove,
                   retErr, bcache>>

\* Variant: the callback is called whatever PutBlockCheckQuota returned.
CallsSyncedCbAlways(blockState, err) == blockState.hasCb

\* Variant: the test on err is inverted.
CallsSyncedCbOnError(blockState, err) == err # nil /\ blockState.hasCb

\* doOneBlockPut calls the entry's syncedCb.
CallsSyncedCb(blockState, err) == err = nil /\ blockState.hasCb

SyncedCb(i) ==
    /\ entry[i].phase = "returned"
    /\ CallsSyncedCb(bps[i], entry[i].err)
    /\ \E cbErr \in CallbackAnswers(i) :
          entry' = [entry EXCEPT ![i] =
              [@ EXCEPT !.phase = "synced", !.syncedCb = @ + 1,
                        !.cbErr = cbErr, !.err = cbErr]]
    /\ UNCHANGED <<restVars, maxParallelBlockPuts, bps, ctxCancelled, pc, blocks,
                   blocksClosed, idle, eg, blocksToRemoveChan, blocksToRemove,
                   retErr, bcache>>

\* The rest of doOneBlockPut for entry i (the send on blocksToRemoveChan) and
\* the worker's loop: on an error the worker returns it to the errgroup,
\* otherwise it waits for the next blockState.
FinishPut(i) ==
    /\ \/ entry[i].phase = "synced"
       \/ entry[i].phase = "returned" /\ ~CallsSyncedCb(bps[i], entry[i].err)
    /\ LET err == entry[i].err
       IN  /\ IF ShouldRemove(bps[i], err)
              THEN /\ Len(blocksToRemoveChan) < ChanCap(numWorkers)
                   /\ blocksToRemoveChan' = Append(blocksToRemoveChan, bps[i].block)
              ELSE UNCHANGED blocksToRemoveChan
           /\ IF WorkerStops(err)
              THEN /\ eg' = EgReturn(eg, err)
                   /\ UNCHANGED idle
              ELSE /\ idle' = idle + 1
                   /\ UNCHANGED eg
    /\ entry' = [entry EXCEPT ![i].phase = "finished"]
    /\ UNCHANGED <<restVars, maxParallelBlockPuts, bps, ctxCancelled, pc, blocks,
                   blocksClosed, blocksToRemove, retErr, bcache>>

\* A worker finds blocks closed and empty and returns nil.
WorkerDone ==
    /\ idle > 0
    /\ blocks = <<>>
    /\ blocksClosed
    /\ idle' = idle - 1
    /\ eg' = EgReturn(eg, nil)
    /\ UNCHANGED <<restVars, maxParallelBlockPuts, bps, ctxCancelled, pc, blocks,
                   blocksClosed, entry, blocksToRemoveChan, blocksToRemove,
                   retErr, bcache>>

\* Variant: eg.Wait() does not wait for the workers.
AllReturnedAtOnce(waiting, busy) == TRUE

\* Every worker started with eg.Go has returned: none waits on blocks and
\* none is inside doOneBlockPut.
AllReturned(waiting, busy) == waiting = 0 /\ busy = {}

\* eg.Wait() returns once every worker has returned; close(blocksToRemoveChan).
Wait ==
    /\ pc = "wait"
    /\ AllReturned(idle, Busy)
    /\ retErr' = eg.err
    /\ eg' = [eg EXCEPT !.cancelled = TRUE]
    /\ pc' = "cleanup"
    /\ UNCHANGED <<restVars, maxParallelBlockPuts, bps, ctxCancelled, blocks, blocksClosed,
                   idle, entry, blocksToRemoveChan, blocksToRemove, bcache>>

\* The pointers of the entries whose block is fblock, in batch order.
RECURSIVE PtrsOf(_, _, _)
PtrsOf(blockStates, fblock, i) ==
    IF i > Len(blockStates) THEN <<>>
    ELSE (IF blockStates[i].block = fblock
          THEN <<BlockPtr(blockStates, i)>> ELSE <<>>)
         \o PtrsOf(blockStates, fblock, i + 1)

\* Variant: the loop over blocksToRemoveChan is never entered.
DrainsChanNever(err) == FALSE

\* Variant: the loop is entered on any error.
DrainsChanOnAnyError(err) == err # nil

\* doBlockPuts enters the loop over blocksToRemoveChan.
DrainsChan(err) == isRecoverableBlockError(err)

\* Variant: the cache calls assign their (nil) result to doBlockPuts' err.
ErrAfterDeleteOverwritten(err) == nil

\* doBlockPuts' err after the two cache deletions of one iteration: their
\* results live in the scope of their own if statements.
ErrAfterDelete(err) == err

\* One iteration of the loop over blocksToRemoveChan.
Drain ==
    /\ pc = "cleanup"
    /\ DrainsChan(retErr)
    /\ blocksToRemoveChan # <<>>
    /\ LET fblock == Head(blocksToRemoveChan)
           list == blocksToRemove \o PtrsOf(bps, fblock, 1)
       IN  /\ blocksToRemoveChan' = Tail(blocksToRemoveChan)
           /\ blocksToRemove' = list
           /\ bcache' = [DeleteKnownPtr |-> Append(bcache.DeleteKnownPtr, fblock),
                         DeleteTransient |-> Append(bcache.DeleteTransient,
                                                    list[Len(list)])]
           /\ retErr' = ErrAfterDelete(retErr)
    /\ UNCHANGED <<restVars, maxParallelBlockPuts, bps, ctxCancelled, pc, blocks,
                   blocksClosed, idle, entry, eg>>

\* return blocksToRemove, err
Return ==
    /\ pc = "cleanup"
    /\ ~DrainsChan(retErr) \/ blocksToRemoveChan = <<>>
    /\ pc' = "done"
    /\ UNCHANGED <<restVars, maxParallelBlockPuts, bps, ctxCancelled, blocks, blocksClosed,
                   idle, entry, eg, blocksToRemoveChan, blocksToRemove, retErr,
                   bcache>>

Next ==
    \/ CancelCtx
    \/ StartWorkers
    \/ Feed
    \/ CloseBlocks
    \/ StartPut
    \/ \E i \in 1..N : RemoteReturn(i)
    \/ \E i \in 1..N : SyncedCb(i)
    \/ \E i \in 1..N : FinishPut(i)
    \/ WorkerDone
    \/ Wait
    \/ Drain
    \/ Return

Spec == Init /\ [][Next]_vars

\* The steps of doBlockPuts, of its workers, of the block server and of the
\* callbacks: everything but the caller's cancellation.
Run ==
    \/ StartWorkers
    \/ Feed
    \/ CloseBlocks
    \/ StartPut
    \/ \E i \in 1..N : RemoteReturn(i)
    \/ \E i \in 1..N : SyncedCb(i)
    \/ \E i \in 1..N : FinishPut(i)
    \/ WorkerDone
    \/ Wait
    \/ Drain
    \/ Return

\* Every goroutine that can take a step eventually takes one, and every
\* block server call and callback returns.
SpecLive == Init /\ [][Next]_vars /\ WF_vars(Run)

\* The batch of the five-entry scenario: five entries, at most three workers.
ScenarioBatch ==
    [i \in 1..5 |-> [RefNonce |-> IF i = 5 THEN 1 ELSE ZeroRefNonce,
                     block |-> <<"f1", "f2", "ind", "dir", "dir">>[i],
                     hasCb |-> (i = 1)]]

InitScenario ==
    /\ maxParallelBlockPuts = 3
    /\ bps = ScenarioBatch
    /\ ctxAtCall = FALSE
    /\ ctxCancelled = FALSE
    /\ ConstrainedUnused
    /\ StallUnused
    /\ AssembleUnused
    /\ DelayUnused /\ NotifUnused /\ MoveUnused /\ FolderUnused
    /\ pc = "start"
    /\ blocks = <<>>
    /\ blocksClosed = FALSE
    /\ idle = 0
    /\ entry = [i \in 1..Len(bps) |-> NewEntry]
    /\ eg = [err |-> nil, cancelled |-> FALSE]
    /\ blocksToRemoveChan = <<>>
    /\ blocksToRemove = <<>>
    /\ retErr = nil
    /\ bcache = [DeleteKnownPtr |-> <<>>, DeleteTransient |-> <<>>]

SpecScenario == InitScenario /\ [][Next]_vars

\* ---------------------------------------------------- BlockOpsConstrained
\* Calls of BlockOpsConstrained.Put explored.
MaxPuts == 2
\* Values of bwKBps, and of len(readyBlockData.buf), explored.
Rates == {-1, 0, 1, 2}
Sizes == {0, 1024, 2048}
\* int(time.Second), the clock being counted in milliseconds.
Second == 1000
\* What the delegate's Put may return.
DelegateAnswers(p) == {nil, Canceled, Err("other", FALSE, p)}

\* Variant: only a negative rate disables the throttle.
delayDisabledNegativeOnly(bw) == bw < 0

\* delay returns nil at once, without locking.
delayDisabled(bw) == bw <= 0

\* The time delay sleeps.
delay(size, bw) == (size * Second) \div (bw * 1024)

\* Variant: Lock does not wait for the holder.
LockFreeAlways(l) == TRUE

\* b.lock.Lock() can be taken.
LockFree(l) == l = 0

\* Variant: the select after the sleep is missing.
delaySelectNone(ctxDone) == nil

\* delay's select on ctx.Done() after the sleep.
delaySelect(ctxDone) == IF ctxDone THEN Canceled ELSE nil

NewPut ==
    [pc |-> "idle",        \* idle, lock, sleep, forward, done
     size |-> 0,           \* len(readyBlockData.buf)
     ctxDone |-> FALSE,    \* the call's ctx is done
     delay |-> 0,          \* the delay computed
     lockedAt |-> -1,      \* when the lock was taken and the sleep began
     wokeAt |-> -1,        \* when the sleep ended and the lock was released
     waited |-> FALSE,     \* the lock was held by another Put when it called
     ctxAtSelect |-> FALSE,\* ctx was done at delay's select
     delegateCalls |-> 0,  \* calls of the delegate's Put
     delegateRet |-> nil,  \* what the delegate's Put returned
     ret |-> nil]          \* what Put returned

\* The pipeline of doBlockPuts is not in use.
PipelineUnused ==
    /\ maxParallelBlockPuts = 1
    /\ bps = <<>>
    /\ ctxAtCall = FALSE
    /\ ctxCancelled = FALSE
    /\ pc = "done"
    /\ blocks = <<>>
    /\ blocksClosed = FALSE
    /\ idle = 0
    /\ entry = <<>>
    /\ eg = [err |-> nil, cancelled |-> FALSE]
    /\ blocksToRemoveChan = <<>>
    /\ blocksToRemove = <<>>
    /\ retErr = nil
    /\ bcache = [DeleteKnownPtr |-> <<>>, DeleteTransient |-> <<>>]

pipelineVars ==
    <<maxParallelBlockPuts, bps, ctxAtCall, ctxCancelled, pc, blocks,
      blocksClosed, idle, entry, eg, blocksToRemoveChan, blocksToRemove,
      retErr, bcache>>

InitConstrained ==
    /\ PipelineUnused
    /\ StallUnused
    /\ AssembleUnused
    /\ DelayUnused /\ NotifUnused /\ MoveUnused /\ FolderUnused
    /\ bwKBps \in Rates
    /\ lock = 0
    /\ now = 0
    /\ puts = [p \in 1..MaxPuts |-> NewPut]

\* The caller of Put p cancels its ctx.
CancelPut(p) ==
    /\ puts[p].pc # "done"
    /\ ~puts[p].ctxDone
    /\ puts' = [puts EXCEPT ![p].ctxDone = TRUE]
    /\ UNCHANGED <<pipelineVars, assembleVars, fsVars, stallVars, bwKBps, lock, now>>

\* Put is called and delay tests bwKBps.
PutCall(p) ==
    /\ puts[p].pc = "idle"
    /\ \E size \in Sizes :
          puts' = [puts EXCEPT ![p] =
              [@ EXCEPT !.size = size,
                        !.waited = lock # 0,
                        !.pc = IF delayDisabled(bwKBps)
                               THEN "forward" ELSE "lock"]]
    /\ UNCHANGED <<pipelineVars, assembleVars, fsVars, stallVars, bwKBps, lock, now>>

\* delay takes the lock, computes the delay and starts to sleep.
Lock(p) ==
    /\ puts[p].pc = "lock"
    /\ LockFree(lock)
    /\ lock' = p
    /\ puts' = [puts EXCEPT ![p] =
          [@ EXCEPT !.pc = "sleep",
                    !.delay = delay(puts[p].size, bwKBps),
                    !.lockedAt = now]]
    /\ UNCHANGED <<pipelineVars, assembleVars, fsVars, stallVars, bwKBps, now>>

\* Time passes, up to the next end of a sleep.
Advance ==
    LET ends == {puts[p].lockedAt + puts[p].delay :
                    p \in {q \in 1..MaxPuts : puts[q].pc = "sleep"}}
        later == {t \in ends : t > now}
    IN  /\ later # {}
        /\ now' = CHOOSE t \in later : \A u \in later : t <= u
        /\ UNCHANGED <<pipelineVars, assembleVars, fsVars, stallVars, bwKBps, lock, puts>>

\* time.Sleep returns; delay selects on ctx.Done(), unlocks and returns, and
\* Put returns delay's error if there is one.
Wake(p) ==
    /\ puts[p].pc = "sleep"
    /\ now >= puts[p].lockedAt + puts[p].delay
    /\ LET err == delaySelect(puts[p].ctxDone)
       IN  puts' = [puts EXCEPT ![p] =
               [@ EXCEPT !.wokeAt = now,
                         !.ctxAtSelect = puts[p].ctxDone,
                         !.ret = err,
                         !.pc = IF err # nil THEN "done" ELSE "forward"]]
    /\ lock' = 0
    /\ UNCHANGED <<pipelineVars, assembleVars, fsVars, stallVars, bwKBps, now>>

\* Put calls the delegate's Put and returns what it returns.
Forward(p) ==
    /\ puts[p].pc = "forward"
    /\ \E answer \in DelegateAnswers(p) :
          puts' = [puts EXCEPT ![p] =
              [@ EXCEPT !.delegateCalls = @ + 1,
                        !.delegateRet = answer,
                        !.ret = answer,
                        !.pc = "done"]]
    /\ UNCHANGED <<pipelineVars, assembleVars, fsVars, stallVars, bwKBps, lock, now>>

NextConstrained ==
    \/ \E p \in 1..MaxPuts : CancelPut(p)
    \/ \E p \in 1..MaxPuts : PutCall(p)
    \/ \E p \in 1..MaxPuts : Lock(p)
    \/ Advance
    \/ \E p \in 1..MaxPuts : Wake(p)
    \/ \E p \in 1..MaxPuts : Forward(p)

SpecConstrained == InitConstrained /\ [][NextConstrained]_vars

\* ------------------------------------- stallingBlockOps and stallingMDOps
\* Operations called on the wrapper that are explored.
MaxOps == 2
\* The methods of the two wrappers, by their stallable names.
BlockOpNames == {"Get", "Ready", "Put", "Delete", "Archive"}
MDOpNames ==
    {"GetForHandle", "GetUnmergedForHandle", "GetForTLF",
     "GetLatestHandleForTLF", "GetUnmergedForTLF", "GetRange",
     "GetUnmergedRange", "Put", "PutUnmerged"}
Methods(w) == IF w = "stallingBlockOps" THEN BlockOpNames ELSE MDOpNames
\* The StallableBlockOp and StallableMDOp constants.
StallableOps(w) ==
    IF w = "stallingBlockOps" THEN BlockOpNames ELSE MDOpNames \cup {"AfterPut"}
\* The values ctx.Value(stallKey) takes, and those that are keys of stallMap.
CtxValues == {"k1", "k2"}
stallMap == {"k1"}
\* What the delegate's operation may return.
OpAnswers(c) == {nil, Err("other", FALSE, c)}

\* Variant: the names are not compared.
maybeStallWaitsAnyName(opName, name, v, m) == v \in m

\* Variant: the comparison of the names is inverted.
maybeStallWaitsOtherOps(opName, name, v, m) == opName # name /\ v \in m

\* maybeStall goes on to its channels: the names are equal and v is a key.
maybeStallWaits(opName, name, v, m) == opName = name /\ v \in m

\* The methods that select on ctx.Done() before and after the delegate call.
ChecksCtx(w, method) == method \in {"Put", "PutUnmerged"}

\* The method that calls maybeStall for StallableMDAfterPut.
StallsAfterPut(w, method) == w = "stallingMDOps" /\ method = "Put"

\* Variant: the cancellation error is returned whatever the select finds.
selectCtxDoneAlways(ctxDone, err) == Canceled

\* Variant: the select always takes its default branch.
selectCtxDoneNever(ctxDone, err) == err

\* select { case <-ctx.Done(): return ctx.Err(); default: return err }
selectCtxDone(ctxDone, err) == IF ctxDone THEN Canceled ELSE err

\* Variant: the send on chans.stalled always finds room.
SendStalledUnbounded(n) == n + 1

\* The non-blocking send on chans.stalled, on a channel holding n values.
StalledCap == 1
SendStalled(n) == IF n < StalledCap THEN n + 1 ELSE n

\* Variant: the receive from unstall also returns when ctx is done.
unstallReadyOrCancelled(n, ctxDone) == n > 0 \/ ctxDone

\* <-chans.unstall can return: the channel holds a value; ctx is not looked at.
unstallReady(n, ctxDone) == n > 0

\* Variant: a receive leaves the value in the channel.
unstallTakeNone(n) == n

\* <-chans.unstall takes one value out of a channel holding n.
unstallTake(n) == n - 1

NewOp ==
    [pc |-> "idle",        \* idle, blocked, call, delegate, blockedAfter, done
     method |-> "Get",
     v |-> "k2",           \* ctx.Value(stallKey)
     ctxDone |-> FALSE,    \* the operation's ctx is done
     recv |-> 0,           \* values received from unstall
     dropped |-> FALSE,    \* the select on stalled took its default branch
     recvAtCall |-> -1,    \* recv when the delegate was called
     ctxAtPre |-> FALSE,   \* ctx was done at the select before the delegate
     ctxAtPost |-> FALSE,  \* ctx was done at the select after the delegate
     delegateCalls |-> 0,
     delegateRet |-> nil,
     ret |-> nil]

InitStall ==
    /\ PipelineUnused
    /\ ConstrainedUnused
    /\ AssembleUnused
    /\ DelayUnused /\ NotifUnused /\ MoveUnused /\ FolderUnused
    /\ wrapper \in {"stallingBlockOps", "stallingMDOps"}
    /\ stallOpName \in StallableOps(wrapper)
    /\ stalled = [k \in stallMap |-> 0]
    /\ unstall = [k \in stallMap |-> 0]
    /\ ops = [c \in 1..MaxOps |-> NewOp]

\* The caller of operation c cancels its ctx.
CancelOp(c) ==
    /\ ops[c].pc \notin {"idle", "done"}
    /\ ~ops[c].ctxDone
    /\ ops' = [ops EXCEPT ![c].ctxDone = TRUE]
    /\ UNCHANGED <<pipelineVars, assembleVars, fsVars, constrainedVars, wrapper, stallOpName,
                   stalled, unstall>>

\* The controller receives an announcement from the stalled channel of k.
OnStalled(k) ==
    /\ stalled[k] > 0
    /\ stalled' = [stalled EXCEPT ![k] = @ - 1]
    /\ UNCHANGED <<pipelineVars, assembleVars, fsVars, constrainedVars, wrapper, stallOpName,
                   unstall, ops>>

\* The controller offers a value on the unstall channel of k.
Unstall(k) ==
    /\ unstall[k] = 0
    /\ unstall' = [unstall EXCEPT ![k] = 1]
    /\ UNCHANGED <<pipelineVars, assembleVars, fsVars, constrainedVars, wrapper, stallOpName,
                   stalled, ops>>

\* A method of the wrapper is called and runs its first maybeStall up to
\* the receive from unstall.
CallOp(c) ==
    /\ ops[c].pc = "idle"
    /\ \E method \in Methods(wrapper), v \in CtxValues, done \in BOOLEAN :
          LET waits == maybeStallWaits(method, stallOpName, v, stallMap)
          IN  /\ ops' = [ops EXCEPT ![c] =
                     [@ EXCEPT !.method = method, !.v = v, !.ctxDone = done,
                               !.dropped = waits /\ SendStalled(stalled[v]) = stalled[v],
                               !.pc = IF waits THEN "blocked" ELSE "call"]]
              /\ stalled' = IF waits
                            THEN [stalled EXCEPT ![v] = SendStalled(@)]
                            ELSE stalled
    /\ UNCHANGED <<pipelineVars, assembleVars, fsVars, constrainedVars, wrapper, stallOpName, unstall>>

\* <-chans.unstall of the first maybeStall.
Receive(c) ==
    /\ ops[c].pc = "blocked"
    /\ unstallReady(unstall[ops[c].v], ops[c].ctxDone)
    /\ unstall' = [unstall EXCEPT ![ops[c].v] = unstallTake(@)]
    /\ ops' = [ops EXCEPT ![c] = [@ EXCEPT !.recv = @ + 1, !.pc = "call"]]
    /\ UNCHANGED <<pipelineVars, assembleVars, fsVars, constrainedVars, wrapper, stallOpName, stalled>>

\* The select on ctx.Done() of the Put methods, and the call of the delegate.
DelegateCall(c) ==
    /\ ops[c].pc = "call"
    /\ ops' = [ops EXCEPT ![c] =
          IF ChecksCtx(wrapper, ops[c].method) /\ ops[c].ctxDone
          THEN [@ EXCEPT !.ctxAtPre = TRUE,
                         !.ret = selectCtxDone(TRUE, nil),
                         !.pc = "done"]
          ELSE [@ EXCEPT !.recvAtCall = ops[c].recv,
                         !.delegateCalls = @ + 1,
                         !.pc = "delegate"]]
    /\ UNCHANGED <<pipelineVars, assembleVars, fsVars, constrainedVars, wrapper, stallOpName,
                   stalled, unstall>>

\* The delegate returns.  The plain methods return its result; Put and
\* PutUnmerged select on ctx.Done(); the MD Put first runs maybeStall for
\* AfterPut up to the receive from unstall.
DelegateReturn(c) ==
    /\ ops[c].pc = "delegate"
    /\ \E answer \in OpAnswers(c) :
          LET o == ops[c]
              waits == /\ StallsAfterPut(wrapper, o.method)
                       /\ maybeStallWaits("AfterPut", stallOpName, o.v, stallMap)
          IN  /\ ops' = [ops EXCEPT ![c] =
                     IF waits
                     THEN [@ EXCEPT !.delegateRet = answer,
                                    !.dropped = SendStalled(stalled[o.v]) = stalled[o.v],
                                    !.pc = "blockedAfter"]
                     ELSE IF ChecksCtx(wrapper, o.method)
                     THEN [@ EXCEPT !.delegateRet = answer,
                                    !.ctxAtPost = o.ctxDone,
                                    !.ret = selectCtxDone(o.ctxDone, answer),
                                    !.pc = "done"]
                     ELSE [@ EXCEPT !.delegateRet = answer,
                                    !.ret = answer,
                                    !.pc = "done"]]
              /\ stalled' = IF waits
                            THEN [stalled EXCEPT ![o.v] = SendStalled(@)]
                            ELSE stalled
    /\ UNCHANGED <<pipelineVars, assembleVars, fsVars, constrainedVars, wrapper, stallOpName, unstall>>

\* <-chans.unstall of the AfterPut maybeStall, and the select that follows.
ReceiveAfter(c) ==
    /\ ops[c].pc = "blockedAfter"
    /\ unstallReady(unstall[ops[c].v], ops[c].ctxDone)
    /\ unstall' = [unstall EXCEPT ![ops[c].v] = unstallTake(@)]
    /\ ops' = [ops EXCEPT ![c] =
          [@ EXCEPT !.recv = @ + 1,
                    !.ctxAtPost = ops[c].ctxDone,
                    !.ret = selectCtxDone(ops[c].ctxDone, ops[c].delegateRet),
                    !.pc = "done"]]
    /\ UNCHANGED <<pipelineVars, assembleVars, fsVars, constrainedVars, wrapper, stallOpName, stalled>>

NextStall ==
    \/ \E c \in 1..MaxOps : CancelOp(c)
    \/ \E k \in stallMap : OnStalled(k)
    \/ \E k \in stallMap : Unstall(k)
    \/ \E c \in 1..MaxOps : CallOp(c)
    \/ \E c \in 1..MaxOps : Receive(c)
    \/ \E c \in 1..MaxOps : DelegateCall(c)
    \/ \E c \in 1..MaxOps : DelegateReturn(c)
    \/ \E c \in 1..MaxOps : ReceiveAfter(c)

SpecStall == InitStall /\ [][NextStall]_vars

\* ------------------------------------------------------------ assembleBlock
\* Longest buf explored; its bytes; the block IDs and earlier encoded sizes.
MaxBuf == 2
Bytes == {0, 1}
Bufs == UNION {[1..n -> Bytes] : n \in 0..MaxBuf}
BlockIDs == 0..3
EncodedSizes == {0, 7}

\* The hash a buffer has: what kbfsblock.VerifyID compares with the ID.
RECURSIVE SumOf(_)
SumOf(buf) == IF buf = <<>> THEN 0 ELSE Head(buf) + SumOf(Tail(buf))
Hash(buf) == (Len(buf) + SumOf(buf)) % 4

\* Variant: the ID is not verified.
VerifyIDNone(buf, id) == nil

\* kbfsblock.VerifyID(buf, blockPtr.ID)
VerifyID(buf, id) ==
    IF Hash(buf) = id THEN nil ELSE Err("HashMismatchError", FALSE, id)

\* What the key service, the codec and the decryption may return.
StepAnswers(step) == {nil, Err(step, FALSE, 0)}

\* uint32(len(buf)): n modulo 2^32, computed on the two 16-bit halves.
Uint32(n) == ((n \div 65536) % 65536) * 65536 + (n % 65536)

NewAsm(buf, id, size) ==
    [pc |-> "VerifyID",   \* VerifyID, GetTLFCryptKey, Decode, DecryptBlock,
                          \* SetEncodedSize, done
     buf |-> buf,
     ID |-> id,
     EncodedSize |-> size,   \* the block's encoded size
     oldSize |-> size,       \* the block's encoded size at the call
     calls |-> [VerifyID |-> 0, GetTLFCryptKey |-> 0, Decode |-> 0,
                DecryptBlock |-> 0, SetEncodedSize |-> 0],
     failed |-> "",          \* the step that returned an error
     err |-> nil]            \* what assembleBlock returned

InitAssemble ==
    /\ PipelineUnused
    /\ ConstrainedUnused
    /\ StallUnused
    /\ DelayUnused /\ NotifUnused /\ MoveUnused /\ FolderUnused
    /\ \E buf \in Bufs, id \in BlockIDs, size \in EncodedSizes :
          asm = NewAsm(buf, id, size)

\* One step of assembleBlock that can fail: on an error assembleBlock
\* returns it, otherwise it goes on with the step next.
AsmStep(step, e, next) ==
    asm' = [asm EXCEPT !.calls[step] = @ + 1,
                       !.failed = IF e # nil THEN step ELSE @,
                       !.err = e,
                       !.pc = IF e # nil THEN "done" ELSE next]

AsmVerifyID ==
    /\ asm.pc = "VerifyID"
    /\ AsmStep("VerifyID", VerifyID(asm.buf, asm.ID), "GetTLFCryptKey")
    /\ UNCHANGED <<pipelineVars, constrainedVars, stallVars, fsVars>>

AsmGetTLFCryptKey ==
    /\ asm.pc = "GetTLFCryptKey"
    /\ \E e \in StepAnswers("GetTLFCryptKey") :
          AsmStep("GetTLFCryptKey", e, "Decode")
    /\ UNCHANGED <<pipelineVars, constrainedVars, stallVars, fsVars>>

AsmDecode ==
    /\ asm.pc = "Decode"
    /\ \E e \in StepAnswers("Decode") : AsmStep("Decode", e, "DecryptBlock")
    /\ UNCHANGED <<pipelineVars, constrainedVars, stallVars, fsVars>>

AsmDecryptBlock ==
    /\ asm.pc = "DecryptBlock"
    /\ \E e \in StepAnswers("DecryptBlock") :
          AsmStep("DecryptBlock", e, "SetEncodedSize")
    /\ UNCHANGED <<pipelineVars, constrainedVars, stallVars, fsVars>>

\* block.SetEncodedSize(uint32(len(buf))); return nil
AsmSetEncodedSize ==
    /\ asm.pc = "SetEncodedSize"
    /\ asm' = [asm EXCEPT !.calls["SetEncodedSize"] = @ + 1,
                          !.EncodedSize = Uint32(Len(asm.buf)),
                          !.err = nil,
                          !.pc = "done"]
    /\ UNCHANGED <<pipelineVars, constrainedVars, stallVars, fsVars>>

NextAssemble ==
    \/ AsmVerifyID
    \/ AsmGetTLFCryptKey
    \/ AsmDecode
    \/ AsmDecryptBlock
    \/ AsmSetEncodedSize

SpecAssemble == InitAssemble /\ [][NextAssemble]_vars

\* ------------------------------------------------------------ properties
\* The error types the contract calls recoverable.
RecoverableKinds ==
    {"BServerErrorBlockArchived", "BServerErrorBlockDeleted",
     "BServerErrorBlockNonExistent", "BServerErrorMaxRefExceeded"}
IsSoftQuota(err) == err.type = "BServerErrorOverQuota" /\ ~err.Throttled
Returned(e) == e.phase \in {"returned", "synced", "finished"}
\* Entry i failed: its remote call (as PutBlockCheckQuota reports it) or its
\* completion callback returned an error.
Failed(i) == Returned(entry[i]) /\ entry[i].err # nil
\* The remote call of an entry in state e has not (yet) returned success.
NotYetSucceeded(e) ==
    ~(Returned(e) /\ (e.bservErr = nil \/ IsSoftQuota(e.bservErr)))
Submitted(i) == Len(entry[i].bservCalls)
Outstanding == {i \in 1..N : entry[i].phase = "inflight"}
PlainFileBlock(b) == b \in {"f1", "f2"}

\* C1: when doBlockPuts has returned and no entry's remote call or callback
\* failed, it returned a nil pointer list and a nil error, and every entry
\* that carries a syncedCb has had it invoked exactly once (and no entry
\* without one has).
C1_AllSucceed ==
    (pc = "done" /\ \A i \in 1..N : ~Failed(i)) =>
        /\ blocksToRemove = <<>>
        /\ retErr = nil
        /\ \A i \in 1..N :
              entry[i].syncedCb = IF bps[i].hasCb THEN 1 ELSE 0

C1_Witness ==
    /\ pc = "done"
    /\ N = 2
    /\ \A i \in 1..N : /\ entry[i].phase = "finished"
                        /\ entry[i].err = nil
                        /\ bps[i].hasCb
                        /\ entry[i].syncedCb = 1

\* Entry i is the only entry that failed, its remote call failed with a
\* recoverable error, and every other entry succeeded.
OnlyRecoverableFailure(i) ==
    /\ pc = "done"
    /\ entry[i].phase = "finished"
    /\ entry[i].bservErr.type \in RecoverableKinds
    /\ \A j \in 1..N \ {i} : entry[j].phase = "finished" /\ entry[j].err = nil

ReturnsExactly(i) ==
    /\ blocksToRemove = <<BlockPtr(bps, i)>>
    /\ retErr = entry[i].bservErr
    /\ bcache.DeleteKnownPtr = <<bps[i].block>>
    /\ bcache.DeleteTransient = <<BlockPtr(bps, i)>>

\* C2 as stated: whenever exactly one entry's remote call fails with a
\* recoverable error and all others succeed, doBlockPuts returns exactly
\* that entry's pointer with the error, and has made one DeleteKnownPtr and
\* one DeleteTransient call, both for that entry.
C2_Original ==
    \A i \in 1..N : OnlyRecoverableFailure(i) => ReturnsExactly(i)

\* C2 as amended: the same, for a failing entry whose block is a
\* non-indirect FileBlock that no other entry of the batch holds.
C2_Amended ==
    \A i \in 1..N :
        ( /\ OnlyRecoverableFailure(i)
          /\ PlainFileBlock(bps[i].block)
          /\ \A j \in 1..N \ {i} : bps[j].block # bps[i].block )
        => ReturnsExactly(i)

C2_Witness ==
    /\ N = 2
    /\ OnlyRecoverableFailure(1)
    /\ entry[1].bservErr.type = "BServerErrorBlockDeleted"
    /\ bps[1].block = "f1"
    /\ bps[2].block = "f2"
    /\ ReturnsExactly(1)

\* A worker has returned a fatal (not recoverable) error to the errgroup.
FatalReturned ==
    \E i \in 1..N : /\ entry[i].phase = "finished"
                     /\ entry[i].err # nil
                     /\ entry[i].err.type \notin RecoverableKinds

\* C3: once a worker has returned a fatal error, every remote call that is
\* in flight ends with the cancellation error, and an entry whose remote call
\* had not yet succeeded never succeeds and never has its syncedCb invoked.
C3_FatalCancels ==
    [][FatalReturned =>
         \A j \in 1..N :
            /\ NotYetSucceeded(entry[j]) =>
                   NotYetSucceeded(entry'[j]) /\ entry'[j].syncedCb = 0
            /\ (entry[j].phase = "inflight" /\ entry'[j].phase # "inflight") =>
                   entry'[j].bservErr = Canceled]_vars

C3_Witness ==
    /\ ~ctxCancelled
    /\ \E i, j \in 1..N :
          /\ i # j
          /\ entry[i].phase = "finished"
          /\ entry[i].err.type = "other"
          /\ entry[j].wasInFlight
          /\ entry[j].bservErr = Canceled
          /\ entry[j].syncedCb = 0

\* Nothing but recoverable errors (and the cancellations they cause) has
\* happened: the caller has not cancelled, and no entry has a fatal error of
\* its own.
OnlyRecoverableCauses ==
    /\ ~ctxCancelled
    /\ \A i \in 1..N : \/ entry[i].err \in {nil, Canceled}
                        \/ entry[i].err.type \in RecoverableKinds

\* C4 as stated: a recoverable failure does not cancel the batch context, so
\* no call of the batch is aborted with a cancellation error and every entry
\* has been submitted when doBlockPuts returns.
C4_Original ==
    OnlyRecoverableCauses =>
        /\ \A j \in 1..N : entry[j].bservErr # Canceled
        /\ pc = "done" => \A j \in 1..N : Submitted(j) = 1

RecoverableReturned ==
    \E i \in 1..N : /\ entry[i].phase = "finished"
                     /\ entry[i].err.type \in RecoverableKinds

\* C4 as amended: once a worker has returned a recoverable error the batch
\* context is cancelled, exactly as for a fatal error: from then on no remote
\* call of the batch that had not yet succeeded succeeds, and calls in flight
\* end with the cancellation error.
C4_Amended ==
    [][RecoverableReturned =>
         /\ eg.cancelled
         /\ \A j \in 1..N :
               /\ NotYetSucceeded(entry[j]) => NotYetSucceeded(entry'[j])
               /\ (entry[j].phase = "inflight" /\ entry'[j].phase # "inflight")
                     => entry'[j].bservErr = Canceled]_vars

C4_Witness ==
    /\ OnlyRecoverableCauses
    /\ \E i, j \in 1..N :
          /\ i # j
          /\ entry[i].phase = "finished"
          /\ entry[i].err.type \in RecoverableKinds
          /\ entry[j].bservErr = Canceled

\* C5: at every instant at most min(len(batch), maxParallelBlockPuts) remote
\* calls are outstanding; and when doBlockPuts has returned with no entry
\* failed, exactly one remote call per entry was made (five for the
\* five-entry batch, never more than three at once) and the result is
\* (nil, nil).
C5_BoundedParallelism ==
    /\ Cardinality(Outstanding)
          <= (IF N < maxParallelBlockPuts THEN N ELSE maxParallelBlockPuts)
    /\ (pc = "done" /\ \A i \in 1..N : ~Failed(i)) =>
          /\ \A i \in 1..N : Submitted(i) = 1
          /\ blocksToRemove = <<>>
          /\ retErr = nil

C5_Witness ==
    /\ N = 5
    /\ maxParallelBlockPuts = 3
    /\ Cardinality(Outstanding) = 3
    /\ \E i \in 1..N : entry[i].phase = "finished" /\ entry[i].err = nil

\* C6 as stated: when doBlockPuts has returned, every entry has been taken
\* from the queue and submitted to the block server exactly once.
C6_Original ==
    pc = "done" => \A i \in 1..N : Submitted(i) = 1

\* C6 as amended: every entry is submitted at most once, and exactly once
\* when doBlockPuts returns a nil error.
C6_Amended ==
    /\ \A i \in 1..N : Submitted(i) <= 1
    /\ (pc = "done" /\ retErr = nil) =>
          \A i \in 1..N : Submitted(i) = 1 /\ entry[i].phase = "finished"

C6_Witness ==
    /\ pc = "done"
    /\ retErr = nil
    /\ N = 2
    /\ maxParallelBlockPuts = 1
    /\ \A i \in 1..N : Submitted(i) = 1

\* C7: doBlockPuts returns a non-nil error exactly when some entry failed,
\* and the error it returns is the error of a failed entry.
C7_ErrorIffFailed ==
    pc = "done" =>
        /\ (retErr # nil) <=> (\E i \in 1..N : Failed(i))
        /\ retErr # nil => \E i \in 1..N : Failed(i) /\ entry[i].err = retErr

C7_Witness ==
    /\ pc = "done"
    /\ N = 2
    /\ Failed(1) /\ Failed(2)
    /\ entry[1].err # entry[2].err
    /\ retErr = entry[2].err
    /\ bcache.DeleteKnownPtr # <<>>

\* C8: when the error of doBlockPuts is not recoverable, the pointer list is
\* nil and no DeleteKnownPtr or DeleteTransient call has been made.
C8_FatalNoCleanup ==
    (pc \in {"cleanup", "done"} /\ retErr.type \notin RecoverableKinds) =>
        /\ blocksToRemove = <<>>
        /\ bcache.DeleteKnownPtr = <<>>
        /\ bcache.DeleteTransient = <<>>

C8_Witness ==
    /\ pc = "done"
    /\ retErr.type = "other"
    /\ blocksToRemoveChan # <<>>

\* C9: each invocation of putBlockToServer makes exactly one block-server
\* call: Put with the payload when the RefNonce is zero, AddBlockReference
\* without it otherwise; and it returns the error of that call unchanged.
C9_PutOrAddReference ==
    \A i \in 1..N :
        /\ entry[i].phase = "queued" => entry[i].bservCalls = <<>>
        /\ entry[i].phase # "queued" =>
              entry[i].bservCalls =
                  IF bps[i].RefNonce = 0
                  THEN <<[op |-> "Put", buf |-> TRUE]>>
                  ELSE <<[op |-> "AddBlockReference", buf |-> FALSE]>>
        /\ Returned(entry[i]) => entry[i].putErr = entry[i].bservErr

C9_Witness ==
    \E i, j \in 1..N :
        /\ bps[i].RefNonce # 0
        /\ entry[i].phase = "returned"
        /\ entry[i].putErr.type = "BServerErrorBlockNonExistent"
        /\ entry[i].bservCalls = <<[op |-> "AddBlockReference", buf |-> FALSE]>>
        /\ bps[j].RefNonce = 0
        /\ entry[j].bservCalls = <<[op |-> "Put", buf |-> TRUE]>>

\* C10: an over-quota answer that is not throttled is reported exactly once
\* (and nothing else is reported), PutBlockCheckQuota returns nil for it, the
\* entry's syncedCb is invoked as for a success, and the quota error never
\* becomes the error of the errgroup or of doBlockPuts.
C10_SoftQuota ==
    /\ \A i \in 1..N :
          Returned(entry[i]) =>
            /\ entry[i].reports = IF IsSoftQuota(entry[i].bservErr) THEN 1 ELSE 0
            /\ IsSoftQuota(entry[i].bservErr) =>
                  /\ entry[i].err # entry[i].bservErr
                  /\ entry[i].phase = "returned" => entry[i].err = nil
                  /\ entry[i].phase \in {"synced", "finished"} =>
                        entry[i].syncedCb = IF bps[i].hasCb THEN 1 ELSE 0
    /\ ~IsSoftQuota(eg.err)
    /\ ~IsSoftQuota(retErr)

C10_Witness ==
    /\ pc = "done"
    /\ retErr = nil
    /\ eg.err = nil
    /\ \E i \in 1..N :
          /\ IsSoftQuota(entry[i].bservErr)
          /\ entry[i].reports = 1
          /\ bps[i].hasCb
          /\ entry[i].syncedCb = 1

IsHardQuota(err) == err.type = "BServerErrorOverQuota" /\ err.Throttled
\* The block server accepted the call: it answered nil or a soft quota warning.
Accepted(err) == err = nil \/ IsSoftQuota(err)

\* C11: a throttled over-quota answer is returned by PutBlockCheckQuota as
\* it is and without a report, the entry's syncedCb is not invoked, its
\* worker returns the error to the errgroup without recording the block
\* (only recoverably failed non-indirect FileBlocks are ever recorded), and
\* when it is the error of doBlockPuts nothing is drained or deleted: the
\* pointer list is nil.
C11_HardQuota ==
    /\ \A i \in 1..N :
          (Returned(entry[i]) /\ IsHardQuota(entry[i].bservErr)) =>
            /\ entry[i].err = entry[i].bservErr
            /\ entry[i].reports = 0
            /\ entry[i].syncedCb = 0
            /\ entry[i].phase = "finished" => eg.err # nil
    /\ Len(blocksToRemoveChan) + Len(bcache.DeleteKnownPtr) =
          Cardinality({i \in 1..N : /\ entry[i].phase = "finished"
                                    /\ entry[i].err.type \in RecoverableKinds
                                    /\ PlainFileBlock(bps[i].block)})
    /\ (pc \in {"cleanup", "done"} /\ IsHardQuota(retErr)) =>
          /\ blocksToRemove = <<>>
          /\ bcache.DeleteKnownPtr = <<>>
          /\ bcache.DeleteTransient = <<>>

C11_Witness ==
    /\ pc = "done"
    /\ IsHardQuota(retErr)
    /\ \E i \in 1..N :
          /\ entry[i].phase = "finished"
          /\ entry[i].bservErr = retErr
          /\ bps[i].hasCb
          /\ PlainFileBlock(bps[i].block)
          /\ entry[i].syncedCb = 0
          /\ entry[i].reports = 0

\* C12: syncedCb is invoked only by the worker that holds the entry, after
\* the entry's own block server call was accepted and before anything else
\* is done for the entry; the error the callback returns becomes the entry's
\* error, and the worker handles it as it handles a block server error: a
\* recoverable one of a non-indirect FileBlock is recorded on
\* blocksToRemoveChan, and any error is returned to the errgroup.
C12_CallbackAfterSuccess ==
    [][\A i \in 1..N :
          /\ entry'[i].syncedCb # entry[i].syncedCb =>
                /\ entry[i].phase = "returned"
                /\ Accepted(entry[i].bservErr)
                /\ entry[i].syncedCb = 0
                /\ entry'[i].syncedCb = 1
                /\ entry'[i].phase = "synced"
                /\ entry'[i].err = entry'[i].cbErr
                /\ idle' = idle
          /\ (entry[i].phase = "synced" /\ entry'[i].phase # "synced") =>
                /\ entry'[i].phase = "finished"
                /\ entry'[i].err = entry[i].cbErr
                /\ entry[i].cbErr = nil => idle' = idle + 1 /\ eg' = eg
                /\ entry[i].cbErr # nil =>
                      /\ idle' = idle
                      /\ eg'.cancelled
                      /\ eg'.err = IF eg.err = nil THEN entry[i].cbErr ELSE eg.err
                /\ blocksToRemoveChan' =
                      IF /\ entry[i].cbErr.type \in RecoverableKinds
                         /\ PlainFileBlock(bps[i].block)
                      THEN Append(blocksToRemoveChan, bps[i].block)
                      ELSE blocksToRemoveChan]_vars

C12_Witness ==
    /\ pc = "done"
    /\ \E i \in 1..N :
          /\ entry[i].syncedCb = 1
          /\ entry[i].bservErr = nil
          /\ entry[i].cbErr.type = "BServerErrorBlockDeleted"
          /\ retErr = entry[i].cbErr
          /\ blocksToRemove = <<[ID |-> i, RefNonce |-> bps[i].RefNonce]>>

\* Every error value the model's block server, callbacks and contexts yield.
ErrorValues ==
    UNION {ServerAnswers(i) \cup CallbackAnswers(i) : i \in 1..MaxBatch}
        \cup {Canceled}

\* C13: isRecoverableBlockError is true exactly for the four kinds archived,
\* deleted, non-existent and max-references-exceeded: on every error value,
\* and in particular on each error an entry, the errgroup or doBlockPuts
\* holds, where it decides what is recorded and whether the loop over
\* blocksToRemoveChan is entered; it is false for nil, for both over-quota
\* errors and for the cancellation error.
C13_RecoverableKinds ==
    /\ \A err \in ErrorValues :
          isRecoverableBlockError(err) <=> err.type \in RecoverableKinds
    /\ \A i \in 1..N :
          isRecoverableBlockError(entry[i].err)
              <=> entry[i].err.type \in RecoverableKinds
    /\ isRecoverableBlockError(retErr) <=> retErr.type \in RecoverableKinds
    /\ ~isRecoverableBlockError(nil)
    /\ ~isRecoverableBlockError(Canceled)
    /\ \A thr \in BOOLEAN :
          ~isRecoverableBlockError(Err("BServerErrorOverQuota", thr, 1))
    /\ pc = "done" =>
          (bcache.DeleteKnownPtr # <<>> => retErr.type \in RecoverableKinds)

C13_Witness ==
    /\ pc = "done"
    /\ N = 2
    /\ retErr.type = "BServerErrorMaxRefExceeded"
    /\ bcache.DeleteKnownPtr # <<>>
    /\ \E i \in 1..N : IsHardQuota(entry[i].err) /\ entry[i].phase = "finished"

\* C14: no step of doBlockPuts changes the batch it was given, and every
\* pointer of the list it builds is the blockPtr of an entry of that batch.
C14_BatchImmutable ==
    [][/\ bps' = bps
       /\ \A k \in 1..Len(blocksToRemove') :
             \E i \in 1..Len(bps) :
                 blocksToRemove'[k] = [ID |-> i, RefNonce |-> bps[i].RefNonce]]_vars

C14_Witness ==
    /\ pc = "done"
    /\ Len(blocksToRemove) = 2
    /\ blocksToRemove[1] # blocksToRemove[2]
    /\ \E i \in 1..N : blocksToRemove[1].RefNonce # ZeroRefNonce

\* C15 as stated: when ctx was already done at the call, no entry is accepted
\* by the block server, no syncedCb is invoked, and doBlockPuts returns the
\* cancellation error.
C15_Original ==
    ctxAtCall =>
        /\ \A i \in 1..N :
              /\ ~(Returned(entry[i]) /\ Accepted(entry[i].bservErr))
              /\ entry[i].syncedCb = 0
        /\ pc = "done" => retErr = Canceled

\* C15 as amended: when ctx was already done at the call, every block server
\* call of the batch is issued on a done context and ends with the
\* cancellation error, no syncedCb is invoked, nothing is recorded for
\* removal, and doBlockPuts returns the cancellation error for a non-empty
\* batch and (nil, nil) for the empty batch.
C15_Amended ==
    ctxAtCall =>
        /\ \A i \in 1..N :
              /\ ~entry[i].wasInFlight
              /\ Returned(entry[i]) => entry[i].bservErr = Canceled
              /\ entry[i].syncedCb = 0
        /\ pc = "done" =>
              /\ retErr = IF N = 0 THEN nil ELSE Canceled
              /\ blocksToRemove = <<>>
              /\ bcache.DeleteKnownPtr = <<>>

C15_Witness ==
    /\ ctxAtCall
    /\ pc = "done"
    /\ N = 2
    /\ retErr = Canceled
    /\ entry[1].phase = "finished"
    /\ entry[1].bservErr = Canceled
    /\ bps[1].hasCb
    /\ entry[1].syncedCb = 0

Sleeping == {p \in 1..MaxPuts : puts[p].pc = "sleep"}
Slept == {p \in 1..MaxPuts : puts[p].wokeAt >= 0}

\* C16: with a positive rate at most one Put is in its delay at a time and
\* it holds the lock; a second Put starts its delay only after the first has
\* ended its own and released the lock, so that the sleeps do not overlap
\* and the time from the first start to the last end is at least the sum of
\* the delays.
C16_SerializedDelay ==
    bwKBps > 0 =>
        /\ Cardinality(Sleeping) <= 1
        /\ \A p \in Sleeping : lock = p
        /\ \A p \in 1..MaxPuts : puts[p].pc = "lock" => puts[p].lockedAt = -1
        /\ \A p, q \in 1..MaxPuts :
              (p # q /\ puts[p].lockedAt >= 0 /\ puts[q].lockedAt >= 0) =>
                 \/ p \in Slept /\ puts[p].wokeAt <= puts[q].lockedAt
                 \/ q \in Slept /\ puts[q].wokeAt <= puts[p].lockedAt
        /\ \A p, q \in Slept :
              (p # q /\ puts[p].wokeAt <= puts[q].lockedAt) =>
                 puts[q].wokeAt >=
                     puts[p].lockedAt + puts[p].delay + puts[q].delay

C16_Witness ==
    /\ bwKBps = 2
    /\ puts[1].size = 2048 /\ puts[2].size = 1024
    /\ puts[1].wokeAt = 1000
    /\ puts[2].waited
    /\ puts[2].lockedAt = 1000
    /\ puts[2].wokeAt = 1500

\* C17: with a positive rate, a Put whose ctx is done at the select that
\* ends the delay returns the cancellation error and has not called the
\* delegate; any other Put has called the delegate's Put exactly once and
\* returned what it returned; and the delegate is never called before the
\* delay has ended.
C17_CancelDuringDelay ==
    bwKBps > 0 =>
        \A p \in 1..MaxPuts :
            /\ puts[p].pc \in {"idle", "lock", "sleep", "forward"} =>
                  puts[p].delegateCalls = 0
            /\ puts[p].pc = "forward" =>
                  puts[p].wokeAt >= 0 /\ ~puts[p].ctxAtSelect
            /\ puts[p].pc = "done" =>
                  IF puts[p].ctxAtSelect
                  THEN puts[p].ret = Canceled /\ puts[p].delegateCalls = 0
                  ELSE /\ puts[p].delegateCalls = 1
                       /\ puts[p].ret = puts[p].delegateRet
                       /\ puts[p].wokeAt >= 0

C17_Witness ==
    /\ bwKBps = 1
    /\ puts[1].pc = "done" /\ puts[2].pc = "done"
    /\ puts[1].delay > 0
    /\ puts[1].ctxAtSelect
    /\ puts[1].ret = Canceled
    /\ puts[1].delegateCalls = 0
    /\ puts[2].ctxDone /\ ~puts[2].ctxAtSelect
    /\ puts[2].delegateCalls = 1
    /\ puts[2].ret.type = "other"

\* C18: with a rate <= 0 no Put ever waits for or takes the lock or sleeps
\* (no time passes), and every Put that has returned has called the
\* delegate's Put exactly once and returned what it returned, whatever its
\* payload size and whether or not its ctx is done.
C18_ThrottleDisabled ==
    bwKBps <= 0 =>
        /\ lock = 0
        /\ now = 0
        /\ \A p \in 1..MaxPuts :
              /\ puts[p].pc \in {"idle", "forward", "done"}
              /\ puts[p].lockedAt = -1 /\ puts[p].wokeAt = -1
              /\ puts[p].delegateCalls = IF puts[p].pc = "done" THEN 1 ELSE 0
              /\ puts[p].pc = "done" => puts[p].ret = puts[p].delegateRet

C18_Witness ==
    /\ bwKBps = 0
    /\ puts[1].pc = "done" /\ puts[2].pc = "done"
    /\ puts[1].size = 2048 /\ puts[1].ctxDone
    /\ puts[1].delegateCalls = 1 /\ puts[1].ret = nil
    /\ puts[2].size = 0 /\ ~puts[2].ctxDone
    /\ puts[2].ret.type = "other"

Finished(c) == ops[c].pc = "done"
\* The methods that look at ctx around the delegate call.
PutMethods == {"Put", "PutUnmerged"}

\* C19 as stated: every operation of the wrappers that has returned has
\* called its delegate once and returned exactly what the delegate returned.
C19_Original ==
    \A c \in 1..MaxOps :
        Finished(c) =>
            ops[c].delegateCalls = 1 /\ ops[c].ret = ops[c].delegateRet

\* C19 as amended: every operation other than the three Puts has called its
\* delegate once and returned exactly what it returned; stallingBlockOps.Put,
\* stallingMDOps.Put and stallingMDOps.PutUnmerged return the cancellation
\* error without calling the delegate when ctx is done before the call,
\* return the cancellation error instead of the delegate's result when ctx is
\* done after it, and the delegate's result otherwise.
C19_Amended ==
    \A c \in 1..MaxOps :
        Finished(c) =>
            IF ops[c].method \notin PutMethods
            THEN ops[c].delegateCalls = 1 /\ ops[c].ret = ops[c].delegateRet
            ELSE IF ops[c].ctxAtPre
            THEN ops[c].delegateCalls = 0 /\ ops[c].ret = Canceled
            ELSE /\ ops[c].delegateCalls = 1
                 /\ ops[c].ret = IF ops[c].ctxAtPost
                                 THEN Canceled ELSE ops[c].delegateRet

C19_Witness ==
    /\ wrapper = "stallingMDOps"
    /\ stallOpName = "GetRange"
    /\ Finished(1) /\ Finished(2)
    /\ ops[1].method = "GetRange" /\ ops[1].v = "k1" /\ ops[1].recv = 1
    /\ ops[1].ctxDone
    /\ ops[1].ret = ops[1].delegateRet /\ ops[1].ret.type = "other"
    /\ ops[2].method = "PutUnmerged"
    /\ ops[2].delegateCalls = 1
    /\ ops[2].ctxAtPost
    /\ ops[2].delegateRet = nil
    /\ ops[2].ret = Canceled

\* Operation c runs maybeStall under the wrapper's stallOpName with a ctx
\* value that is a key of stallMap: as the first statement of the method of
\* that name, or for AfterPut inside the MD Put.
StallsOnEntry(c) ==
    /\ ops[c].pc # "idle"
    /\ ops[c].method = stallOpName
    /\ ops[c].v \in stallMap
StallsAfterDelegate(c) ==
    /\ ops[c].pc # "idle"
    /\ wrapper = "stallingMDOps"
    /\ stallOpName = "AfterPut"
    /\ ops[c].method = "Put"
    /\ ops[c].v \in stallMap

\* C20 as stated: whenever the name under which an operation stalls equals
\* stallOpName and its ctx value is registered, the delegate has not been
\* called before the operation received from unstall.
C20_Original ==
    \A c \in 1..MaxOps :
        (StallsOnEntry(c) \/ StallsAfterDelegate(c)) =>
            (ops[c].delegateCalls > 0 => ops[c].recvAtCall >= 1)

\* C20 as amended: for stallOpName equal to the name of the method, the
\* delegate is called only after the receive from unstall; for AfterPut the
\* delegate's Put is called without any receive and it is the return of the
\* MD Put that waits for the receive.
C20_Amended ==
    \A c \in 1..MaxOps :
        /\ StallsOnEntry(c) =>
              /\ ops[c].pc = "blocked" => ops[c].recv = 0
              /\ ops[c].pc \notin {"idle", "blocked"} => ops[c].recv >= 1
              /\ ops[c].delegateCalls > 0 => ops[c].recvAtCall >= 1
              /\ ops[c].recv = 0 => ops[c].delegateCalls = 0
        /\ StallsAfterDelegate(c) =>
              /\ ops[c].delegateCalls > 0 => ops[c].recvAtCall = 0
              /\ (Finished(c) /\ ops[c].delegateCalls > 0) => ops[c].recv = 1

C20_Witness ==
    /\ wrapper = "stallingBlockOps"
    /\ stallOpName = "Put"
    /\ StallsOnEntry(1)
    /\ ops[1].pc = "delegate"
    /\ ops[1].recvAtCall = 1
    /\ ops[2].method = "Put" /\ ops[2].v = "k1"
    /\ ops[2].pc = "blocked"
    /\ unstall["k1"] = 0

\* C21: a maybeStall whose opName differs from stallOpName, or whose ctx
\* value is no key of stallMap, touches no channel and does not block: the
\* method goes straight on to its delegate (and the MD Put, after its
\* delegate, straight on to its last select), whatever else is registered or
\* stalled.
C21_NoStallWhenUnregistered ==
    [][\A c \in 1..MaxOps :
          /\ ( /\ ops[c].pc = "idle" /\ ops'[c].pc # "idle"
               /\ (ops'[c].method # stallOpName \/ ops'[c].v \notin {"k1"}) ) =>
                 /\ ops'[c].pc = "call"
                 /\ ops'[c].recv = 0
                 /\ stalled' = stalled
                 /\ unstall' = unstall
          /\ ( /\ ops[c].pc = "delegate" /\ ops'[c].pc # "delegate"
               /\ wrapper = "stallingMDOps" /\ ops[c].method = "Put"
               /\ (stallOpName # "AfterPut" \/ ops[c].v \notin {"k1"}) ) =>
                 /\ ops'[c].pc = "done"
                 /\ ops'[c].recv = ops[c].recv
                 /\ stalled' = stalled
                 /\ unstall' = unstall]_vars

C21_Witness ==
    /\ wrapper = "stallingBlockOps"
    /\ stallOpName = "Get"
    /\ ops[1].method = "Get" /\ ops[1].v = "k1" /\ ops[1].pc = "blocked"
    /\ ops[2].method = "Get" /\ ops[2].v = "k2" /\ ops[2].pc = "done"
    /\ ops[2].recv = 0
    /\ ops[2].delegateCalls = 1
    /\ stalled["k1"] = 1
    /\ unstall["k1"] = 0

AsmSteps == {"VerifyID", "GetTLFCryptKey", "Decode", "DecryptBlock"}

\* C22: assembleBlock attempts each step at most once and in order; when the
\* hash of buf is not blockPtr.ID it returns an error without calling the key
\* service, decoding, decrypting or setting the encoded size; and the
\* encoded size is set, to len(buf), only when verification, key fetch,
\* decode and decrypt were all attempted and succeeded.
C22_AssembleBlock ==
    /\ \A step \in AsmSteps \cup {"SetEncodedSize"} : asm.calls[step] <= 1
    /\ asm.calls["GetTLFCryptKey"] <= asm.calls["VerifyID"]
    /\ asm.calls["Decode"] <= asm.calls["GetTLFCryptKey"]
    /\ asm.calls["DecryptBlock"] <= asm.calls["Decode"]
    /\ asm.calls["SetEncodedSize"] <= asm.calls["DecryptBlock"]
    /\ (asm.pc = "done" /\ Hash(asm.buf) # asm.ID) =>
          /\ asm.err # nil
          /\ asm.calls = [VerifyID |-> 1, GetTLFCryptKey |-> 0, Decode |-> 0,
                          DecryptBlock |-> 0, SetEncodedSize |-> 0]
          /\ asm.EncodedSize = asm.oldSize
    /\ IF asm.calls["SetEncodedSize"] = 1
       THEN /\ asm.EncodedSize = Len(asm.buf)
            /\ asm.failed = "" /\ asm.err = nil
            /\ \A step \in AsmSteps : asm.calls[step] = 1
            /\ Hash(asm.buf) = asm.ID
       ELSE asm.EncodedSize = asm.oldSize
    /\ asm.pc = "done" =>
          (asm.err = nil <=> asm.calls["SetEncodedSize"] = 1)

C22_Witness ==
    /\ asm.pc = "done"
    /\ Len(asm.buf) = 2
    /\ Hash(asm.buf) # asm.ID
    /\ asm.err.type = "HashMismatchError"
    /\ asm.oldSize = 7
    /\ asm.EncodedSize = 7
    /\ asm.calls["GetTLFCryptKey"] = 0

\* An entry whose doOneBlockPut stands before its send on blocksToRemoveChan.
AboutToSend ==
    {i \in 1..N : /\ \/ entry[i].phase = "synced"
                     \/ entry[i].phase = "returned" /\ entry[i].err # nil
                  /\ entry[i].err.type \in RecoverableKinds
                  /\ PlainFileBlock(bps[i].block)}
\* Blocks sent on blocksToRemoveChan so far: still in it, or drained.
SentOnChan == Len(blocksToRemoveChan) + Len(bcache.DeleteKnownPtr)

\* C23: at most numWorkers blocks are ever sent on blocksToRemoveChan, and
\* whenever a worker stands before its send the channel has room, so that
\* the send does not block.
C23_SendNeverBlocks ==
    LET workers == IF N < maxParallelBlockPuts THEN N ELSE maxParallelBlockPuts
    IN  /\ SentOnChan + Cardinality(AboutToSend) <= workers
        /\ AboutToSend # {} => Len(blocksToRemoveChan) < workers

C23_Witness ==
    /\ N = 2
    /\ maxParallelBlockPuts = 2
    /\ Len(blocksToRemoveChan) = 1
    /\ AboutToSend = {2}
    /\ entry[1].err.type = "BServerErrorBlockArchived"
    /\ entry[2].cbErr.type = "BServerErrorBlockDeleted"

\* C24: doBlockPuts eventually returns, whatever the batch, the answers of
\* the block server and of the callbacks and the cancellations; and for the
\* empty batch it returns (nil, nil).
C24_AlwaysReturns ==
    /\ <>(pc = "done")
    /\ [](pc = "done" /\ N = 0 => retErr = nil /\ blocksToRemove = <<>>)

C24_Witness ==
    /\ pc = "done"
    /\ N = 2
    /\ maxParallelBlockPuts = 1
    /\ entry[1].err.type = "BServerErrorMaxRefExceeded"
    /\ PlainFileBlock(bps[1].block)
    /\ entry[2].phase = "queued"
    /\ blocksToRemove # <<>>

WorkersExited == idle = 0 /\ Busy = {}

\* C25 as stated: when doBlockPuts has returned, every worker has exited and
\* blocksToRemoveChan is empty, whatever the returned error.
C25_Original ==
    pc = "done" => WorkersExited /\ blocksToRemoveChan = <<>>

\* C25 as amended: when doBlockPuts has returned, every worker has exited;
\* blocksToRemoveChan is empty when the returned error is nil or
\* recoverable, and may still hold recorded blocks when it is not.
C25_Amended ==
    pc = "done" =>
        /\ WorkersExited
        /\ (retErr = nil \/ retErr.type \in RecoverableKinds) =>
              blocksToRemoveChan = <<>>
        /\ blocksToRemoveChan # <<>> =>
              blocksToRemove = <<>> /\ bcache.DeleteKnownPtr = <<>>

C25_Witness ==
    /\ pc = "done"
    /\ retErr.type = "BServerErrorBlockNonExistent"
    /\ Len(bcache.DeleteKnownPtr) = 2
    /\ blocksToRemoveChan = <<>>
    /\ WorkersExited

\* C26: every step that calls bcache.DeleteKnownPtr or bcache.DeleteTransient
\* is taken after eg.Wait() returned, when no worker waits on blocks, none is
\* inside doOneBlockPut and no block server call or callback is running.
C26_CacheAfterWorkers ==
    [][bcache' # bcache =>
          /\ pc = "cleanup"
          /\ WorkersExited
          /\ \A i \in 1..N : entry[i].phase \in {"queued", "finished"}
          /\ entry' = entry]_vars

C26_Witness ==
    /\ pc = "cleanup"
    /\ N = 2
    /\ Len(bcache.DeleteKnownPtr) = 1
    /\ Len(blocksToRemoveChan) = 1
    /\ entry[1].wasInFlight /\ entry[2].wasInFlight

\* A worker's error, not the caller, has cancelled groupCtx.
CancelledByWorker == eg.err # nil /\ ~ctxCancelled

\* C27 as stated: when a worker's error cancelled groupCtx, every entry that
\* had not been started before has been taken by a worker and ended with
\* the cancellation error when doBlockPuts returns.
C27_Original ==
    (pc = "done" /\ CancelledByWorker) =>
        \A j \in 1..N :
            \/ entry[j].wasInFlight
            \/ entry[j].phase = "finished" /\ entry[j].bservErr = Canceled

\* C27 as amended: once a worker's error has cancelled groupCtx, an entry
\* not yet started either stays in the queue for good or is taken by a
\* worker whose block server call ends with the cancellation error; it is
\* never accepted by the block server and its syncedCb is never invoked.
C27_Amended ==
    [][CancelledByWorker =>
          \A j \in 1..N :
              /\ entry[j].phase = "queued" =>
                    \/ entry'[j].phase = "queued"
                    \/ /\ entry'[j].phase = "returned"
                       /\ ~entry'[j].wasInFlight
                       /\ entry'[j].bservErr = Canceled
                       /\ entry'[j].err = Canceled
              /\ (~entry[j].wasInFlight /\ entry[j].phase # "queued") =>
                    /\ entry'[j].bservErr = Canceled
                    /\ entry'[j].syncedCb = 0
                    /\ entry'[j].phase \in {"returned", "finished"}]_vars

C27_Witness ==
    /\ pc = "done"
    /\ CancelledByWorker
    /\ Len(bps) = 2
    /\ entry[1].err.type = "other"
    /\ ~entry[2].wasInFlight
    /\ entry[2].phase = "finished"
    /\ entry[2].bservErr = Canceled
    /\ bps[2].hasCb

Range(seq) == {seq[k] : k \in 1..Len(seq)}

\* C28: when doBlockPuts has returned a recoverable error, for every pointer
\* of the returned list DeleteTransient was called with that pointer and
\* DeleteKnownPtr with the block of its entry.
C28_EveryPointerDeleted ==
    (pc = "done" /\ retErr.type \in RecoverableKinds) =>
        \A k \in 1..Len(blocksToRemove) :
            /\ blocksToRemove[k] \in Range(bcache.DeleteTransient)
            /\ bps[blocksToRemove[k].ID].block \in Range(bcache.DeleteKnownPtr)

\* C29: every pointer of the list belongs to an entry whose block is a
\* non-indirect FileBlock which failed recoverably in some entry; only such
\* failures are ever recorded on blocksToRemoveChan; and when every
\* recoverable failure of the batch is one of a directory block or of an
\* indirect file block, doBlockPuts returns the recoverable error with a nil
\* list and without any cache deletion.
C29_OnlyPlainFileBlocks ==
    /\ \A k \in 1..Len(blocksToRemove) :
          LET i == blocksToRemove[k].ID
          IN  /\ i \in 1..N
              /\ blocksToRemove[k].RefNonce = bps[i].RefNonce
              /\ bps[i].block \in {"f1", "f2"}
              /\ \E j \in 1..N :
                    /\ bps[j].block = bps[i].block
                    /\ entry[j].phase = "finished"
                    /\ entry[j].err.type \in RecoverableKinds
    /\ \A b \in Range(blocksToRemoveChan) \cup Range(bcache.DeleteKnownPtr) :
          b \in {"f1", "f2"}
    /\ ( /\ pc = "done"
         /\ retErr.type \in RecoverableKinds
         /\ \A j \in 1..N :
               entry[j].err.type \in RecoverableKinds =>
                   bps[j].block \in {"ind", "dir"} ) =>
          /\ blocksToRemove = <<>>
          /\ bcache.DeleteKnownPtr = <<>>
          /\ bcache.DeleteTransient = <<>>

C29_Witness ==
    /\ pc = "done"
    /\ N = 2
    /\ bps[1].block = "ind" /\ bps[2].block = "dir"
    /\ entry[1].err.type = "BServerErrorBlockArchived"
    /\ entry[2].err.type = "BServerErrorBlockDeleted"
    /\ retErr.type \in RecoverableKinds
    /\ blocksToRemove = <<>>
    /\ bcache.DeleteKnownPtr = <<>>

\* C30: the send of maybeStall on the stalled channel never blocks: a
\* method that is to stall takes its step whatever the channel holds, the
\* announcement is buffered when there is room and dropped when there is
\* none, in both cases the operation goes on to wait on unstall, and a
\* waiting operation can receive as soon as a value is offered on unstall,
\* whatever the stalled channel holds.
C30_AnnounceNeverBlocks ==
    /\ [](\A c \in 1..MaxOps :
             /\ ops[c].pc = "idle" => ENABLED CallOp(c)
             /\ ops[c].pc = "delegate" => ENABLED DelegateReturn(c)
             /\ (ops[c].pc = "blocked" /\ unstall[ops[c].v] > 0) =>
                   ENABLED Receive(c)
             /\ (ops[c].pc = "blockedAfter" /\ unstall[ops[c].v] > 0) =>
                   ENABLED ReceiveAfter(c)
             /\ ops[c].dropped => ops[c].v \in {"k1"})
    /\ [][\A c \in 1..MaxOps :
             ( /\ ops[c].pc \in {"idle", "delegate"}
               /\ ops'[c].pc \in {"blocked", "blockedAfter"} ) =>
                 /\ ops'[c].dropped = (stalled["k1"] = 1)
                 /\ stalled'["k1"] = 1
                 /\ unstall' = unstall
                 /\ ops'[c].recv = 0]_vars

C30_Witness ==
    /\ stallOpName = "Get"
    /\ ops[1].method = "Get" /\ ops[1].v = "k1" /\ ~ops[1].dropped
    /\ ops[1].pc = "blocked"
    /\ ops[2].method = "Get" /\ ops[2].v = "k1" /\ ops[2].dropped
    /\ ops[2].pc = "done" /\ ops[2].recv = 1 /\ ops[2].delegateCalls = 1
    /\ stalled["k1"] = 1

\* C31: a Put or PutUnmerged whose ctx is done at the select before the
\* delegate call returns the cancellation error without calling the
\* delegate; one whose ctx is done at the select after the delegate call
\* (for the MD Put: after the AfterPut stall) returns the cancellation error
\* although the delegate's Put was called and whatever it returned.
C31_PutReturnsCtxErr ==
    [][\A c \in 1..MaxOps :
          (ops[c].method \in {"Put", "PutUnmerged"} /\ ops[c].ctxDone) =>
              /\ (ops[c].pc = "call" /\ ops'[c].pc # "call") =>
                    /\ ops'[c].pc = "done"
                    /\ ops'[c].ret = Canceled
                    /\ ops'[c].delegateCalls = 0
              /\ (ops[c].pc \in {"delegate", "blockedAfter"}
                    /\ ops'[c].pc = "done") =>
                    /\ ops'[c].ret = Canceled
                    /\ ops'[c].delegateCalls = 1]_vars

C31_Witness ==
    /\ wrapper = "stallingMDOps"
    /\ stallOpName = "AfterPut"
    /\ ops[1].method = "Put" /\ ops[1].v = "k1"
    /\ ops[1].pc = "done" /\ ops[1].recv = 1
    /\ ops[1].delegateCalls = 1 /\ ops[1].delegateRet = nil
    /\ ops[1].ret = Canceled
    /\ ops[2].method = "PutUnmerged"
    /\ ops[2].pc = "done"
    /\ ops[2].delegateCalls = 0
    /\ ops[2].ret = Canceled

Waiting(c) == ops[c].pc \in {"blocked", "blockedAfter"}

\* C35: an operation waiting in maybeStall leaves it only by taking a value
\* from the unstall channel of its key; while that channel is empty it
\* cannot go on, whether its ctx is cancelled or not, and a cancellation
\* leaves it waiting.
C35_OnlyUnstallReleases ==
    /\ [](\A c \in 1..MaxOps :
             (Waiting(c) /\ unstall[ops[c].v] = 0) =>
                 ~ENABLED Receive(c) /\ ~ENABLED ReceiveAfter(c))
    /\ [][\A c \in 1..MaxOps :
             Waiting(c) =>
                 \/ /\ ops'[c].pc = ops[c].pc
                    /\ ops'[c].recv = ops[c].recv
                    /\ ops'[c].ret = ops[c].ret
                 \/ /\ unstall[ops[c].v] = 1
                    /\ unstall'[ops[c].v] = 0
                    /\ ops'[c].recv = ops[c].recv + 1]_vars

C35_Witness ==
    /\ wrapper = "stallingBlockOps"
    /\ stallOpName = "Put"
    /\ ops[1].method = "Put" /\ ops[1].v = "k1"
    /\ ops[1].pc = "blocked"
    /\ ops[1].ctxDone
    /\ unstall["k1"] = 0
    /\ ops[2].pc = "done" /\ ops[2].method = "Put" /\ ops[2].v = "k2"

\* C36: a step that takes a value from an unstall channel releases exactly
\* one waiting operation of that key and leaves every other operation where
\* it was; the number of operations released under a key never exceeds the
\* number of values taken from its channel.
C36_OneReleasePerSignal ==
    [][\A k \in {"k1"} :
          LET released == {c \in 1..MaxOps :
                              /\ Waiting(c) /\ ops[c].v = k
                              /\ ~(ops'[c].pc \in {"blocked", "blockedAfter"})}
          IN  /\ released # {} =>
                    /\ Cardinality(released) = 1
                    /\ unstall[k] = 1 /\ unstall'[k] = 0
                    /\ \A c \in released : ops'[c].recv = ops[c].recv + 1
                    /\ \A c \in (1..MaxOps) \ released : ops'[c] = ops[c]
              /\ unstall'[k] < unstall[k] => released # {}
              /\ unstall'[k] \in {0, 1}]_vars

C36_Witness ==
    /\ stallOpName = "Get"
    /\ ops[1].method = "Get" /\ ops[1].v = "k1"
    /\ ops[2].method = "Get" /\ ops[2].v = "k1"
    /\ ops[1].pc = "delegate" /\ ops[1].recv = 1
    /\ ops[2].pc = "blocked" /\ ops[2].recv = 0
    /\ unstall["k1"] = 0

\* C37: every entry of the batch is sent on blocks at most once, is given
\* to the block server at most once (exactly once when a worker took it)
\* and has its syncedCb invoked at most once, whatever the workers'
\* interleaving, the failures and the cancellations.
C37_AtMostOnce ==
    \A i \in 1..N :
        /\ Cardinality({k \in 1..Len(blocks) : blocks[k] = i}) <= 1
        /\ (\E k \in 1..Len(blocks) : blocks[k] = i) =>
              entry[i].phase = "queued"
        /\ Len(entry[i].bservCalls) <= 1
        /\ entry[i].phase = "queued" => entry[i].bservCalls = <<>>
        /\ entry[i].phase # "queued" => Len(entry[i].bservCalls) = 1
        /\ entry[i].syncedCb <= 1
        /\ entry[i].reports <= 1

C37_Witness ==
    /\ pc = "done"
    /\ N = 2
    /\ maxParallelBlockPuts = 2
    /\ ctxCancelled
    /\ bps[1].hasCb /\ bps[2].hasCb
    /\ Len(entry[1].bservCalls) = 1 /\ entry[1].syncedCb = 1
    /\ Len(entry[2].bservCalls) = 1 /\ entry[2].syncedCb = 0
    /\ entry[2].err.type = "BServerErrorBlockArchived"

\* ------------------------------- BlockOpsConstrained.delay on a 32-bit int
\* The range of Go's int where it has 32 bits.
MaxInt == 2147483647
MinInt == -MaxInt - 1
\* int(time.Second), in nanoseconds.
SecondNs == 1000000000

\* x + y on int: the sum wraps around.
AddInt(x, y) ==
    IF x >= 0 /\ y >= 0 /\ x > MaxInt - y
    THEN (x - MaxInt) + (y - MaxInt) - 2
    ELSE IF x < 0 /\ y < 0 /\ x < MinInt - y
    THEN (x + MaxInt) + (y + MaxInt) + 2
    ELSE x + y

\* x * y on int, for y >= 0: the product wraps around.
RECURSIVE MulInt(_, _)
MulInt(x, y) ==
    IF y = 0 THEN 0
    ELSE AddInt(IF y % 2 = 1 THEN x ELSE 0,
                MulInt(AddInt(x, x), y \div 2))

\* x / y on int, for y # 0: the quotient is truncated towards zero.
QuoInt(x, y) ==
    IF y > 0
    THEN IF x < 0 /\ x % y # 0 THEN (x \div y) + 1 ELSE x \div y
    ELSE IF y = MinInt
    THEN IF x = MinInt THEN 1 ELSE 0
    ELSE IF x = MinInt
    THEN IF y = -1 THEN MinInt
         ELSE -(IF x % (-y) # 0 THEN (x \div (-y)) + 1 ELSE x \div (-y))
    ELSE -(IF x < 0 /\ x % (-y) # 0 THEN (x \div (-y)) + 1 ELSE x \div (-y))

\* delay := size * int(time.Second) / (b.bwKBps * 1024); a zero divisor
\* panics.
delayInt(size, bw) ==
    LET divisor == MulInt(bw, 1024)
    IN  IF divisor = 0
        THEN [panic |-> TRUE, delay |-> 0]
        ELSE [panic |-> FALSE,
              delay |-> QuoInt(MulInt(size, SecondNs), divisor)]

\* time.Sleep returns at once for a duration that is not positive.
SleepTime(d) == IF d > 0 THEN d ELSE 0

\* The sizes and rates explored.
DelaySizes == {0, 1, 2, 3, 4, 5, 8, 16, 64, 512, 1024, 2048}
DelayRates == {-1, 0, 1, 2, 3, 4, 16, 256, 512}

InitDelay ==
    /\ PipelineUnused /\ ConstrainedUnused /\ StallUnused /\ AssembleUnused
    /\ NotifUnused /\ MoveUnused /\ FolderUnused
    /\ \E size \in DelaySizes, bw \in DelayRates :
          dly = [pc |-> "start", size |-> size, bwKBps |-> bw,
                 panic |-> FALSE, delay |-> 0, slept |-> 0]

\* delay up to the computation of the duration.
DelayCompute ==
    /\ dly.pc = "start"
    /\ dly' = IF delayDisabled(dly.bwKBps)
              THEN [dly EXCEPT !.pc = "done"]
              ELSE LET r == delayInt(dly.size, dly.bwKBps)
                   IN  [dly EXCEPT !.panic = r.panic, !.delay = r.delay,
                                   !.pc = IF r.panic THEN "done" ELSE "sleep"]
    /\ UNCHANGED <<pipelineVars, constrainedVars, stallVars, assembleVars,
                   notifVars, moveVars, folderVars>>

\* time.Sleep(time.Duration(delay))
DelaySleep ==
    /\ dly.pc = "sleep"
    /\ dly' = [dly EXCEPT !.slept = SleepTime(dly.delay), !.pc = "done"]
    /\ UNCHANGED <<pipelineVars, constrainedVars, stallVars, assembleVars,
                   notifVars, moveVars, folderVars>>

NextDelay == DelayCompute \/ DelaySleep

SpecDelay == InitDelay /\ [][NextDelay]_vars

\* floor(size * 10^9 / (R * 1024)), which is floor(size * 1953125 / (2 R)),
\* for the sizes and rates explored.
ExactDelay(size, R) ==
    ((size \div (2 * R)) * 1953125) + (((size % (2 * R)) * 1953125) \div (2 * R))

\* C34: for every size >= 0 and rate R > 0, the delay computed and slept is
\* floor(size * 10^9 / (R * 1024)) nanoseconds: it is not negative, it is
\* zero for size 0 and it is not less than the delay of a smaller size.
C34_DelayFormula ==
    (dly # <<>> /\ dly.pc = "done" /\ dly.bwKBps > 0) =>
        /\ ~dly.panic
        /\ dly.delay = ExactDelay(dly.size, dly.bwKBps)
        /\ dly.slept = dly.delay
        /\ dly.delay >= 0
        /\ dly.size = 0 => dly.delay = 0
        /\ \A smaller \in DelaySizes :
              smaller <= dly.size =>
                  delayInt(smaller, dly.bwKBps).delay <= dly.delay

\* ------------------------------ FS.queueNotification, processNotifications
\* Calls of queueNotification that are explored.
MaxCalls == 2

NewCall ==
    [pc |-> "idle",        \* idle, rlock, check, send, done
     rlocked |-> FALSE,    \* the call holds a read lock on notificationMutex
     outcome |-> ""]       \* sent, ignored, nil (method call on the nil
                           \* field), closed (send on the closed channel)

\* notificationMutex.Lock() and RLock() can be taken.
CanLock(m) == ~m.writer /\ m.readers = 0
CanRLock(m) == ~m.writer

\* NewFS has returned: launchNotificationProcessor has made the channel
\* and started processNotifications.
InitNotif ==
    /\ PipelineUnused /\ ConstrainedUnused /\ StallUnused /\ AssembleUnused
    /\ DelayUnused /\ MoveUnused /\ FolderUnused
    /\ notifications = "chan"
    /\ nchan = [buf |-> 0, closed |-> FALSE]
    /\ notificationGroup = 0
    /\ notificationMutex = [writer |-> FALSE, readers |-> 0]
    /\ proc = "select"
    /\ fsctx = FALSE
    /\ qn = [c \in 1..MaxCalls |-> NewCall]

\* The ctx given to NewFS is cancelled.
CancelFS ==
    /\ ~fsctx
    /\ fsctx' = TRUE
    /\ UNCHANGED <<pipelineVars, constrainedVars, stallVars, assembleVars,
                   delayVars, moveVars, folderVars, notifications, nchan,
                   notificationGroup, notificationMutex, proc, qn>>

\* processNotifications: case i := <-f.notifications.Out()
ProcReceive ==
    /\ proc = "select"
    /\ nchan.buf > 0
    /\ nchan' = [nchan EXCEPT !.buf = @ - 1]
    /\ proc' = "notify"
    /\ UNCHANGED <<pipelineVars, constrainedVars, stallVars, assembleVars,
                   delayVars, moveVars, folderVars, notifications,
                   notificationGroup, notificationMutex, fsctx, qn>>

\* notifyFn(); f.notificationGroup.Done()
ProcNotify ==
    /\ proc = "notify"
    /\ notificationGroup' = notificationGroup - 1
    /\ proc' = "select"
    /\ UNCHANGED <<pipelineVars, constrainedVars, stallVars, assembleVars,
                   delayVars, moveVars, folderVars, notifications, nchan,
                   notificationMutex, fsctx, qn>>

\* case <-ctx.Done(): the processor goes on to notificationMutex.Lock().
ProcCtxDone ==
    /\ proc = "select"
    /\ fsctx
    /\ proc' = "lock"
    /\ UNCHANGED <<pipelineVars, constrainedVars, stallVars, assembleVars,
                   delayVars, moveVars, folderVars, notifications, nchan,
                   notificationGroup, notificationMutex, fsctx, qn>>

\* Lock(); c := f.notifications; f.notifications = nil; Unlock()
ProcShutdown ==
    /\ proc = "lock"
    /\ CanLock(notificationMutex)
    /\ notifications' = "nil"
    /\ proc' = "close"
    /\ UNCHANGED <<pipelineVars, constrainedVars, stallVars, assembleVars,
                   delayVars, moveVars, folderVars, nchan, notificationGroup,
                   notificationMutex, fsctx, qn>>

\* c.Close()
ProcClose ==
    /\ proc = "close"
    /\ nchan' = [nchan EXCEPT !.closed = TRUE]
    /\ proc' = "drain"
    /\ UNCHANGED <<pipelineVars, constrainedVars, stallVars, assembleVars,
                   delayVars, moveVars, folderVars, notifications,
                   notificationGroup, notificationMutex, fsctx, qn>>

\* for range c.Out() { }: a queued notification is thrown away.
ProcDrain ==
    /\ proc = "drain"
    /\ nchan.buf > 0
    /\ nchan' = [nchan EXCEPT !.buf = @ - 1]
    /\ UNCHANGED <<pipelineVars, constrainedVars, stallVars, assembleVars,
                   delayVars, moveVars, folderVars, notifications,
                   notificationGroup, notificationMutex, proc, fsctx, qn>>

\* c.Out() is closed and empty: processNotifications returns.
ProcReturn ==
    /\ proc = "drain"
    /\ nchan.buf = 0
    /\ proc' = "returned"
    /\ UNCHANGED <<pipelineVars, constrainedVars, stallVars, assembleVars,
                   delayVars, moveVars, folderVars, notifications, nchan,
                   notificationGroup, notificationMutex, fsctx, qn>>

\* queueNotification: f.notificationGroup.Add(1)
QnAdd(c) ==
    /\ qn[c].pc = "idle"
    /\ notificationGroup' = notificationGroup + 1
    /\ qn' = [qn EXCEPT ![c].pc = "rlock"]
    /\ UNCHANGED <<pipelineVars, constrainedVars, stallVars, assembleVars,
                   delayVars, moveVars, folderVars, notifications, nchan,
                   notificationMutex, proc, fsctx>>

\* f.notificationMutex.RLock()
QnRLock(c) ==
    /\ qn[c].pc = "rlock"
    /\ CanRLock(notificationMutex)
    /\ notificationMutex' = [notificationMutex EXCEPT !.readers = @ + 1]
    /\ qn' = [qn EXCEPT ![c] = [@ EXCEPT !.pc = "check", !.rlocked = TRUE]]
    /\ UNCHANGED <<pipelineVars, constrainedVars, stallVars, assembleVars,
                   delayVars, moveVars, folderVars, notifications, nchan,
                   notificationGroup, proc, fsctx>>

\* if f.notifications == nil { return }; f.notificationMutex.RUnlock()
QnCheck(c) ==
    /\ qn[c].pc = "check"
    /\ IF notifications = "nil"
       THEN /\ qn' = [qn EXCEPT ![c] =
                   [@ EXCEPT !.pc = "done", !.outcome = "ignored"]]
            /\ UNCHANGED notificationMutex
       ELSE /\ qn' = [qn EXCEPT ![c] =
                   [@ EXCEPT !.pc = "send", !.rlocked = FALSE]]
            /\ notificationMutex' =
                   [notificationMutex EXCEPT !.readers = @ - 1]
    /\ UNCHANGED <<pipelineVars, constrainedVars, stallVars, assembleVars,
                   delayVars, moveVars, folderVars, notifications, nchan,
                   notificationGroup, proc, fsctx>>

\* What the unlocked read of f.notifications may yield: the field's value,
\* or, racing with the processor's write, the channel it held before.
ReadNotifications == {notifications, "chan"}

\* f.notifications.In() <- fn, outside the lock: a method call on nil and a
\* send on the closed channel panic; otherwise the channel takes the value.
QnSend(c) ==
    /\ qn[c].pc = "send"
    /\ \E seen \in ReadNotifications :
          IF seen = "nil"
          THEN /\ qn' = [qn EXCEPT ![c] =
                      [@ EXCEPT !.pc = "done", !.outcome = "nil"]]
               /\ UNCHANGED nchan
          ELSE IF nchan.closed
          THEN /\ qn' = [qn EXCEPT ![c] =
                      [@ EXCEPT !.pc = "done", !.outcome = "closed"]]
               /\ UNCHANGED nchan
          ELSE /\ qn' = [qn EXCEPT ![c] =
                      [@ EXCEPT !.pc = "done", !.outcome = "sent"]]
               /\ nchan' = [nchan EXCEPT !.buf = @ + 1]
    /\ UNCHANGED <<pipelineVars, constrainedVars, stallVars, assembleVars,
                   delayVars, moveVars, folderVars, notifications,
                   notificationGroup, notificationMutex, proc, fsctx>>

NextNotif ==
    \/ CancelFS
    \/ ProcReceive
    \/ ProcNotify
    \/ ProcCtxDone
    \/ ProcShutdown
    \/ ProcClose
    \/ ProcDrain
    \/ ProcReturn
    \/ \E c \in 1..MaxCalls : QnAdd(c)
    \/ \E c \in 1..MaxCalls : QnRLock(c)
    \/ \E c \in 1..MaxCalls : QnCheck(c)
    \/ \E c \in 1..MaxCalls : QnSend(c)

SpecNotif == InitNotif /\ [][NextNotif]_vars

\* Every call of queueNotification has returned and the processor has
\* nothing left to do.
NotifQuiescent ==
    /\ qn # <<>>
    /\ \A c \in 1..MaxCalls : qn[c].pc = "done"
    /\ \/ proc = "returned"
       \/ proc = "select" /\ nchan.buf = 0 /\ ~fsctx

\* C32: once every call of queueNotification has returned and the processor
\* has finished what was queued, every Add(1) has been matched by a Done():
\* the counter of notificationGroup is 0 and a Wait on it returns.
C32_EveryAddIsDone ==
    NotifQuiescent => notificationGroup = 0

\* C38: no call of queueNotification calls In() on the nil notifications
\* field or sends on the channel after the processor closed it.
C38_NoUseAfterShutdown ==
    qn # <<>> =>
        \A c \in 1..MaxCalls : qn[c].outcome \notin {"nil", "closed"}

\* C39: a call of queueNotification that has returned holds no read lock on
\* notificationMutex, so that a writer can take the lock once the calls
\* have returned.
C39_ReadLockReleased ==
    qn # <<>> =>
        /\ \A c \in 1..MaxCalls : qn[c].pc = "done" => ~qn[c].rlocked
        /\ (\A c \in 1..MaxCalls : qn[c].pc \in {"idle", "done"}) =>
              notificationMutex.readers = 0

\* ------------------------------------------------ FS.MoveFile on a Dir
\* What f.open(ctx, oc, dstPath) returns for the target: no error when the
\* name exists, the no-such-name error when it does not, or another error.
OpenTarget(exists) ==
    IF exists THEN {"nil", "other"} ELSE {"NoSuchName", "other"}
isNoSuchNameError(err) == err = "NoSuchName"
\* What KBFSOps().Rename may return.
RenameAnswers == {"nil", "error"}

\* Another operation creates the target name in the destination directory.
CreateTarget ==
    /\ mv.pc # "done"
    /\ ~dstExists
    /\ dstExists' = TRUE
    /\ UNCHANGED <<pipelineVars, constrainedVars, stallVars, assembleVars,
                   delayVars, notifVars, folderVars, mv>>

\* Another operation removes the target name.
RemoveTarget ==
    /\ mv.pc # "done"
    /\ dstExists
    /\ dstExists' = FALSE
    /\ UNCHANGED <<pipelineVars, constrainedVars, stallVars, assembleVars,
                   delayVars, notifVars, folderVars, mv>>

\* if !replaceExisting { x, _, err := f.open(ctx, oc, dstPath); ... }
MoveCheck ==
    /\ mv.pc = "check"
    /\ IF mv.replaceExisting
       THEN mv' = [mv EXCEPT !.pc = "rename"]
       ELSE \E err \in OpenTarget(dstExists) :
               mv' = IF ~isNoSuchNameError(err)
                     THEN [mv EXCEPT !.openErr = err, !.pc = "done",
                                     !.ret = "Refusing to replace existing target!"]
                     ELSE [mv EXCEPT !.openErr = err, !.pc = "rename"]
    /\ UNCHANGED <<pipelineVars, constrainedVars, stallVars, assembleVars,
                   delayVars, notifVars, folderVars, dstExists>>

\* if srcFolder != ddst.folder { return ErrAccessDenied }; KBFSOps().Rename
MoveRename ==
    /\ mv.pc = "rename"
    /\ IF ~mv.sameFolder
       THEN /\ mv' = [mv EXCEPT !.pc = "done", !.ret = "ErrAccessDenied"]
            /\ UNCHANGED dstExists
       ELSE \E err \in RenameAnswers :
               /\ mv' = [mv EXCEPT !.renames = @ + 1,
                                   !.dstAtRename = dstExists,
                                   !.pc = "done",
                                   !.ret = err]
               /\ dstExists' = IF err = "nil" THEN TRUE ELSE dstExists
    /\ UNCHANGED <<pipelineVars, constrainedVars, stallVars, assembleVars,
                   delayVars, notifVars, folderVars>>

NextMove == CreateTarget \/ RemoveTarget \/ MoveCheck \/ MoveRename

\* ------------------------------------------------- FS.folderListRename
Names == {"a", "b"}

\* src.(*EmptyFolder); the first look at fl.folders[dstName] under fl.mu.
FolderCheck ==
    /\ flr.pc = "check"
    /\ flr' = IF ~flr.isEmptyFolder
              THEN [flr EXCEPT !.pc = "done", !.ret = "ErrAccessDenied"]
              ELSE IF ~flr.replaceExisting /\ flr.dstName \in folders
              THEN [flr EXCEPT !.pc = "done", !.ret = "ErrAccessDenied"]
              ELSE [flr EXCEPT !.pc = "open"]
    /\ UNCHANGED <<pipelineVars, constrainedVars, stallVars, assembleVars,
                   delayVars, notifVars, moveVars, folders>>

\* f.open(ctx, oc, dstPath): the open may add the destination to the list.
FolderOpen ==
    /\ flr.pc = "open"
    /\ folders' \in {folders, folders \cup {flr.dstName}}
    /\ flr' = [flr EXCEPT !.pc = "rename"]
    /\ UNCHANGED <<pipelineVars, constrainedVars, stallVars, assembleVars,
                   delayVars, notifVars, moveVars>>

\* _, ok = fl.folders[dstName]; delete(fl.folders, srcName);
\* if !ok { fl.folders[dstName] = ef }; return nil
FolderRename ==
    /\ flr.pc = "rename"
    /\ LET ok == flr.dstName \in folders
       IN  folders' = IF ok
                      THEN folders \ {flr.srcName}
                      ELSE (folders \ {flr.srcName}) \cup {flr.dstName}
    /\ flr' = [flr EXCEPT !.pc = "done", !.ret = "nil"]
    /\ UNCHANGED <<pipelineVars, constrainedVars, stallVars, assembleVars,
                   delayVars, notifVars, moveVars>>

\* Another open on the FolderList adds a name while the rename runs.
FolderOtherOpen ==
    /\ flr.pc \in {"open", "rename"}
    /\ \E name \in Names \ folders : folders' = folders \cup {name}
    /\ UNCHANGED <<pipelineVars, constrainedVars, stallVars, assembleVars,
                   delayVars, notifVars, moveVars, flr>>

NextFolder == FolderCheck \/ FolderOpen \/ FolderRename \/ FolderOtherOpen

\* Two calls of MoveFile: one renames inside a FolderList, the other renames
\* a Dir or File through KBFSOps.
InitMoveFile ==
    /\ PipelineUnused /\ ConstrainedUnused /\ StallUnused /\ AssembleUnused
    /\ DelayUnused /\ NotifUnused
    /\ dstExists \in BOOLEAN
    /\ \E replaceExisting \in BOOLEAN, sameFolder \in BOOLEAN :
          mv = [pc |-> "check",      \* check, rename, done
                replaceExisting |-> replaceExisting,
                sameFolder |-> sameFolder,   \* srcFolder == ddst.folder
                openErr |-> "",              \* what the open of dstPath gave
                renames |-> 0,               \* calls of KBFSOps().Rename
                dstAtRename |-> FALSE,       \* the target existed at the call
                ret |-> ""]
    /\ folders \in SUBSET Names
    /\ \E isEmptyFolder \in BOOLEAN, srcName \in Names, dstName \in Names,
          replaceExisting \in BOOLEAN :
          flr = [pc |-> "check",     \* check, open, rename, done
                 isEmptyFolder |-> isEmptyFolder,  \* src.(*EmptyFolder)
                 srcName |-> srcName,
                 dstName |-> dstName,
                 replaceExisting |-> replaceExisting,
                 ret |-> ""]

NextMoveFile == NextMove \/ NextFolder

SpecMoveFile == InitMoveFile /\ [][NextMoveFile]_vars

\* C33: MoveFile with replaceExisting = false calls KBFSOps().Rename only
\* when the target name does not exist at the time of the call.
C33_NeverReplaces ==
    (mv # <<>> /\ ~mv.replaceExisting /\ mv.renames > 0) => ~mv.dstAtRename

\* C40: a folderListRename that returns success leaves no entry under
\* srcName and an entry under dstName, whatever the two names; one that is
\* called with replaceExisting = false while dstName exists returns access
\* denied and leaves the folder list as it is.
C40_FolderListRename ==
    [][(flr # <<>> /\ flr.pc # "done" /\ flr'.pc = "done") =>
          /\ flr'.ret = "nil" =>
                /\ flr.srcName \notin folders'
                /\ flr.dstName \in folders'
          /\ (flr.pc = "check" /\ flr.isEmptyFolder /\ ~flr.replaceExisting
                /\ flr.dstName \in folders) =>
                /\ flr'.ret = "ErrAccessDenied"
                /\ folders' = folders]_vars

====
